---- MODULE Spec2Model ----
(***************************************************************************)
(* A model of the trust kernel core: the area frame allocator, the         *)
(* recursive page-table mapper, the stack allocator, the linked-list heap  *)
(* allocator and the interrupt-driven task executor with its keyboard      *)
(* scancode stream.                                                        *)
(*                                                                         *)
(* Each subsystem has its own specification (SpecFrame, SpecPaging,        *)
(* SpecHeap, SpecExec) over the one set of variables; a specification      *)
(* leaves the variables of the other subsystems at their initial value.    *)
(***************************************************************************)
EXTENDS Integers, Sequences, FiniteSets, TLC

VARIABLES
    fa,          \* AreaFrameAllocator: the struct's fields
    fa_ret,      \* result of the last allocate_frame call (Option<Frame>)
    fa_hist,     \* every frame allocate_frame has returned, in order
    fa_freed     \* the frames passed to deallocate_frame, each with the
                 \* number of allocations made before the call

VARIABLES
    mem,         \* physical memory: frame number -> contents of the page
                 \* table stored in it (index -> entry, unused entries left out)
    cr3,         \* the frame of the P4 table the CPU walks
    range,       \* StackAllocator.range: the PageIter's start and end
    stacks,      \* every Stack alloc_stack has returned, with the guard page
                 \* and the number of pages of the call
    panicked,    \* the kernel has panicked
    lastOp       \* the last paging operation, its arguments and its result

VARIABLES
    free_list,   \* heap Allocator: the regions linked from head.next, in list
                 \* order, each with its start address and its size
    heap_init,   \* Allocator::init has been called
    live,        \* the blocks alloc returned that were not passed to dealloc,
                 \* each with the layout of the call
    clobbered,   \* a list header was written into a live block
    heapOp       \* the last heap call, its layout and pointer, and the dealloc
                 \* that came directly before it

VARIABLES
    tasks,        \* Executor.tasks: task id -> the task's future
    task_queue,   \* Executor.task_queue: the ready ids, oldest first
    waker_cache,  \* Executor.waker_cache: the ids that have a cached waker
    sc_queue,     \* SCANCODE_QUEUE: None until initialised, then the bytes
    WAKER,        \* keyboard::WAKER: the id the registered waker wakes, or None
    intr,         \* the CPU's interrupt-enable flag
    pc,           \* where the kernel's one thread is
    cur_task,     \* the id of the task being polled
    kpc,          \* where the keyboard task's future is
    to_spawn,     \* the tasks kernel_main has not spawned yet
    pushed,       \* the scancodes add_scancode has enqueued, in order
    delivered,    \* the scancodes poll_next has yielded, in order
    woken,        \* the ids whose waker was invoked and that were not polled since
    wakes,        \* the number of waker invocations so far
    keys,         \* the number of keyboard interrupts so far
    enqueued,     \* the ids pushed onto task_queue, in the order of the pushes
    dequeued,     \* the ids run_ready has popped from task_queue, in order
    isr_heap      \* an interrupt handler has called the heap allocator

VARIABLES
    print_frame,  \* the _print call of the kernel's thread and the one of an
                  \* interrupt handler: where it is, the writer it prints to,
                  \* the flag without_interrupts saved and the flag at the call
    writer_lock,  \* who holds the spin lock of WRITER and of SERIAL1
    in_isr        \* an interrupt handler is running on top of the thread

VARIABLES
    call_arg,     \* the argument of the function a specification of one
                  \* function calls
    call_ret      \* what the call did: "none" before it, then the result

VARIABLES
    WRITER        \* vga_buffer::WRITER: the column, the color code and the
                  \* contents of the VGA text buffer it writes to

VARIABLES
    remap         \* remap_kernel: where it is, the boot information it reads
                  \* and its locals (the temporary page's allocator, the new
                  \* and the old P4 frame)

VARIABLES
    cpu           \* the CPU running tests/stack_overflow.rs: where it is, the
                  \* stack pointer, the TSS's interrupt stack table, the
                  \* frames the recursion has written to, the address of
                  \* the page fault and the code the test exits with

favars == <<fa, fa_ret, fa_hist, fa_freed>>

convars == <<print_frame, writer_lock, in_isr>>

auxvars == <<convars, call_arg, call_ret, WRITER, remap, cpu>>

execvars ==
    <<tasks, task_queue, waker_cache, sc_queue, WAKER, intr, pc, cur_task, kpc, to_spawn,
      pushed, delivered, woken, wakes, keys, enqueued, dequeued, isr_heap>>

heapvars == <<free_list, heap_init, live, clobbered, heapOp>>

ptvars == <<mem, cr3, range, stacks, panicked, lastOp>>

ptvars_nopanic == <<mem, cr3, range, stacks, lastOp>>

vars ==
    <<fa, fa_ret, fa_hist, fa_freed, mem, cr3, range, stacks, panicked, lastOp,
      free_list, heap_init, live, clobbered, heapOp,
      tasks, task_queue, waker_cache, sc_queue, WAKER, intr, pc, cur_task, kpc, to_spawn,
      pushed, delivered, woken, wakes, keys, enqueued, dequeued, isr_heap,
      print_frame, writer_lock, in_isr, call_arg, call_ret, WRITER, remap, cpu>>

----------------------------------------------------------------------------
(* The state of each subsystem before it is used; a specification of one   *)
(* subsystem leaves the others in this state.                              *)

\* Option::None
None == <<>>

\* ptr::null_mut()
NULL == 0

\* mem::size_of::<ListNode>() and mem::align_of::<ListNode>() on x86_64:
\* a usize and a pointer
ListNode_size == 16

ListNode_align == 8

\* usize::MAX of the machine of the heap model: its addresses have 8 bits,
\* so that an address plus a size can overflow
UsizeMax == 255

\* the heap given to init
HeapStartWords == 20

HEAP_START == HeapStartWords * ListNode_align

HEAP_SIZE == 72

\* an allocator that is created with the heap as its one free region
Allocator_with_heap == <<[addr |-> HEAP_START, size |-> HEAP_SIZE]>>

\* Allocator::empty: head.next is None
Allocator_empty == <<>>

NoHeapOp == [op |-> "none", layout |-> [size |-> 0, align |-> 0], ptr |-> NULL,
             prev |-> None]

InitHeapVars ==
    /\ free_list = Allocator_empty
    /\ heap_init = FALSE
    /\ live = {}
    /\ clobbered = FALSE
    /\ heapOp = NoHeapOp

NoOp == [op |-> "none", page |-> <<0, 0>>, frame |-> 0, n |-> 0, was |-> None,
         after |-> "none", ret |-> None, freed |-> {}]

InitExecVars ==
    /\ tasks = <<>>
    /\ task_queue = <<>>
    /\ waker_cache = {}
    /\ sc_queue = None
    /\ WAKER = None
    /\ intr = TRUE
    /\ pc = "boot"
    /\ cur_task = 0
    /\ kpc = [at |-> "start", sc |-> 0]
    /\ to_spawn = <<>>
    /\ pushed = <<>>
    /\ delivered = <<>>
    /\ woken = {}
    /\ wakes = 0
    /\ keys = 0
    /\ enqueued = <<>>
    /\ dequeued = <<>>
    /\ isr_heap = FALSE

\* no _print call is under way
NoPrint == [at |-> "idle", dev |-> "WRITER", saved |-> FALSE, was |-> FALSE]

InitConVars ==
    /\ print_frame = [ctx \in {"thread", "isr"} |-> NoPrint]
    /\ writer_lock = [dev \in {"WRITER", "SERIAL1"} |-> "free"]
    /\ in_isr = FALSE

NoCall == [op |-> "none"]

InitCallVars ==
    /\ call_arg = NoCall
    /\ call_ret = NoCall

\* WRITER before its first use
NoWriter == [column_pos |-> 0, color_code |-> 0, buffer |-> <<>>]

\* remap_kernel has not been called
NoRemap == [pc |-> "none"]

\* tests/stack_overflow.rs is not running
NoCpu == [pc |-> "none"]

InitAuxVars ==
    InitConVars /\ InitCallVars /\ WRITER = NoWriter /\ remap = NoRemap /\ cpu = NoCpu

InitPagingVars ==
    /\ mem = <<>>
    /\ cr3 = 0
    /\ range = [start |-> <<0, 1>>, end |-> <<0, 0>>]
    /\ stacks = <<>>
    /\ lastOp = NoOp

InitFrameVars ==
    /\ fa = [next_free_frame |-> 0, current_area |-> 0, areas |-> <<>>,
             kernel_start |-> 0, kernel_end |-> 0, mbi_start |-> 0, mbi_end |-> 0]
    /\ fa_ret = <<>>
    /\ fa_hist = <<>>
    /\ fa_freed = {}

----------------------------------------------------------------------------
(* Option<T>: None is the empty tuple, Some(x) the one-element tuple.      *)
Some(x) == <<x>>

IsSome(o) == o # <<>>

Unwrap(o) == o[1]

----------------------------------------------------------------------------
(* memory/mod.rs: frames                                                   *)
PAGE_SIZE == 4096

\* Frame::containing_address(addr).number
Frame_containing_address(addr) == addr \div PAGE_SIZE

----------------------------------------------------------------------------
(* Bounds of the frame allocator's inputs.  Memory areas start and end at  *)
(* multiples of AddrUnit (half a page, so that areas need not be page      *)
(* aligned); the kernel image and the boot information lie in the first    *)
(* frames.                                                                 *)
AddrUnit == 2048

MaxAreaStart == 2

MaxAreaSize == 3

MaxAreas == 2

MaxUsedFrame == 1

MemoryAreas ==
    { [start |-> s * AddrUnit, size |-> n * AddrUnit] :
        s \in 0..MaxAreaStart, n \in 1..MaxAreaSize }

\* three page-aligned areas that follow one another: frame 0, frames 1 and
\* 2, frame 3
AdjacentAreas ==
    << [start |-> 0, size |-> 2 * AddrUnit],
       [start |-> 2 * AddrUnit, size |-> 4 * AddrUnit],
       [start |-> 6 * AddrUnit, size |-> 2 * AddrUnit] >>

\* the maps that list the three adjacent areas in any order
AdjacentAreaMaps ==
    { [i \in 1..3 |-> AdjacentAreas[p[i]]] :
        p \in { q \in [1..3 -> 1..3] : \A i, j \in 1..3 : q[i] = q[j] => i = j } }

MemoryMaps ==
    UNION { [1..k -> MemoryAreas] : k \in 1..MaxAreas } \cup AdjacentAreaMaps

\* (start, end) byte addresses of a used range: the kernel image or the
\* boot information
UsedRanges ==
    { <<p[1] * PAGE_SIZE, p[2] * PAGE_SIZE + (PAGE_SIZE - 1)>> :
        p \in { q \in (0..MaxUsedFrame) \X (0..MaxUsedFrame) : q[1] <= q[2] } }

----------------------------------------------------------------------------
(* memory/area_frame_allocator.rs                                          *)

\* the last frame of a memory area
AreaLastFrame(area) == Frame_containing_address(area.start + area.size - 1)

\* a filter that drops the area whose last frame is the cursor frame
AreasLeft_after(a) ==
    { i \in DOMAIN a.areas : AreaLastFrame(a.areas[i]) > a.next_free_frame }

\* the indices of the areas that pass the filter of pick_next_area
AreasLeft(a) ==
    { i \in DOMAIN a.areas : AreaLastFrame(a.areas[i]) >= a.next_free_frame }

\* the first of the areas in the order of the memory map; 0 stands for None
MinByIndex(areas, idx) ==
    IF idx = {} THEN 0
    ELSE CHOOSE i \in idx : \A j \in idx : i <= j

\* Iterator::min_by_key(start_address): the first of the minimal elements;
\* 0 stands for None
MinByStart(areas, idx) ==
    IF idx = {} THEN 0
    ELSE CHOOSE i \in idx :
            \A j \in idx :
                \/ areas[i].start < areas[j].start
                \/ (areas[i].start = areas[j].start /\ i <= j)

\* pick_next_area that always moves the cursor to the start of the area
pick_next_area_to_start(a, cur) ==
    IF cur # 0
    THEN [a EXCEPT !.current_area = cur,
                   !.next_free_frame = Frame_containing_address(a.areas[cur].start)]
    ELSE [a EXCEPT !.current_area = cur]

\* pick_next_area, given the area chosen by min_by_key
pick_next_area_chosen(a, cur) ==
    IF cur # 0 /\ a.next_free_frame < Frame_containing_address(a.areas[cur].start)
    THEN [a EXCEPT !.current_area = cur,
                   !.next_free_frame = Frame_containing_address(a.areas[cur].start)]
    ELSE [a EXCEPT !.current_area = cur]

\* pick_next_area without the move of the cursor to the start of the area
pick_next_area_keep_cursor(a) ==
    [a EXCEPT !.current_area = MinByStart(a.areas, AreasLeft(a))]

pick_next_area(a) == pick_next_area_chosen(a, MinByStart(a.areas, AreasLeft(a)))

AreaFrameAllocator_new(kernel_start, kernel_end, mbi_start, mbi_end, memory_areas) ==
    pick_next_area(
        [ next_free_frame |-> Frame_containing_address(0),
          current_area |-> 0,
          areas |-> memory_areas,
          kernel_start |-> Frame_containing_address(kernel_start),
          kernel_end |-> Frame_containing_address(kernel_end),
          mbi_start |-> Frame_containing_address(mbi_start),
          mbi_end |-> Frame_containing_address(mbi_end) ])

\* allocate_frame: the new allocator and the returned Option<Frame>
RECURSIVE allocate_frame(_)
allocate_frame(a) ==
    IF a.current_area # 0
    THEN LET area == a.areas[a.current_area]
             frame == a.next_free_frame
             current_area_last_frame == AreaLastFrame(area)
         IN IF frame > current_area_last_frame
            THEN allocate_frame(pick_next_area(a))
            ELSE IF frame >= a.kernel_start /\ frame <= a.kernel_end
            THEN allocate_frame([a EXCEPT !.next_free_frame = a.kernel_end + 1])
            ELSE IF frame >= a.mbi_start /\ frame <= a.mbi_end
            THEN allocate_frame([a EXCEPT !.next_free_frame = a.mbi_end + 1])
            ELSE [alloc |-> [a EXCEPT !.next_free_frame = @ + 1], ret |-> Some(frame)]
    ELSE [alloc |-> a, ret |-> None]

\* deallocate_frame that rewinds the cursor to the frame given back
deallocate_frame_rewind(a, frame) ==
    [a EXCEPT !.next_free_frame = frame]

\* deallocate_frame: the body is empty
deallocate_frame(a, frame) == a

----------------------------------------------------------------------------
(* 64-bit addresses.  TLC's integers have 32 bits, so a usize address is   *)
(* kept as [num, off]: off is the low 12 bits (address % PAGE_SIZE) and    *)
(* num is address / PAGE_SIZE, a 52-bit number kept as <<hi, lo>> with     *)
(* number = hi * 2^27 + lo.  A Page's number is such a pair; a Frame's     *)
(* number is a plain integer (physical memory is small).                   *)
TwoTo9 == 2^9

TwoTo16 == 2^16

TwoTo18 == 2^18

TwoTo25 == 2^25

TwoTo27 == 2^27

\* the pair of a small number
Num(n) == <<n \div TwoTo27, n % TwoTo27>>

\* number + k
NumAdd(num, k) ==
    <<(num[1] + (num[2] + k) \div TwoTo27) % TwoTo25, (num[2] + k) % TwoTo27>>

\* num1 <= num2
NumLeq(n1, n2) == n1[1] < n2[1] \/ (n1[1] = n2[1] /\ n1[2] <= n2[2])

\* address + k
AddrAdd(addr, k) ==
    [num |-> NumAdd(addr.num, (addr.off + k) \div PAGE_SIZE),
     off |-> (addr.off + k) % PAGE_SIZE]

\* Frame::start_address: number * PAGE_SIZE
Frame_start_address(frame) == [num |-> Num(frame), off |-> 0]

----------------------------------------------------------------------------
(* memory/paging/mod.rs: pages                                             *)
ENTRY_COUNT == 512

\* an assertion that takes addresses for 49 bits wide: the hole starts at
\* 0x0001_0000_0000_0000
IsCanonical_49bit(addr) ==
    addr.num[1] < 512 \/ addr.num[1] >= TwoTo25 - 512

\* the assertion of Page::containing_address: the address is not in
\* 0x0000_8000_0000_0000 .. 0xffff_8000_0000_0000
IsCanonical(addr) ==
    addr.num[1] < 256 \/ addr.num[1] >= TwoTo25 - 256

\* Page::containing_address(addr).number: addr / PAGE_SIZE
Page_containing_address(addr) == addr.num

\* Page::start_address: number * PAGE_SIZE
Page_start_address(page) == [num |-> page, off |-> 0]

\* (number >> 27) & 0o777
p4_index(page) == page[1] % TwoTo9

\* (number >> 18) & 0o777
p3_index(page) == (page[2] \div TwoTo18) % TwoTo9

\* (number >> 9) & 0o777
p2_index(page) == (page[2] \div TwoTo9) % TwoTo9

\* number & 0o777
p1_index(page) == page[2] % TwoTo9

\* PageIter::next on the iterator [start, end]: the new iterator and the item
PageIter_next(it) ==
    IF NumLeq(it.start, it.end)
    THEN [it |-> [it EXCEPT !.start = NumAdd(@, 1)], item |-> Some(it.start)]
    ELSE [it |-> it, item |-> None]

\* Iterator::nth(n): n + 1 calls of next, the item of the last one
RECURSIVE PageIter_nth(_, _)
PageIter_nth(it, n) ==
    LET r == PageIter_next(it)
    IN IF r.item = None \/ n = 0 THEN r ELSE PageIter_nth(r.it, n - 1)

----------------------------------------------------------------------------
(* memory/paging/entry.rs: page-table entries, a set of flags and the      *)
(* frame number of the masked frame pointer.                               *)
UnusedEntry == [frame |-> 0, flags |-> {}]

Entry_is_unused(e) == e = UnusedEntry

Entry_flags(e) == e.flags

Entry_pointed_frame(e) ==
    IF "PRESENT" \in e.flags THEN Some(e.frame) ELSE None

Entry_set(frame, flags) == [frame |-> frame, flags |-> flags]

----------------------------------------------------------------------------
(* The machine: physical memory, CR3 and the frame allocator, passed       *)
(* through the paging code as one record m with the fields mem, cr3, fa,   *)
(* ret, hist and freed (the allocator and the record of its calls) and     *)
(* panic.  A value that the code binds with let and uses more than once    *)
(* is the last parameter of an operator of its own.                        *)

\* the entry at an index of the table stored in a frame
EntryAt(m, frame, i) ==
    IF frame \in DOMAIN m.mem /\ i \in DOMAIN m.mem[frame]
    THEN m.mem[frame][i]
    ELSE UnusedEntry

\* the CPU's walk at the P1 entry e1 of a page
HwWalkP1(e1) ==
    IF "PRESENT" \notin e1.flags THEN None ELSE Some(e1.frame)

\* the CPU's walk at the P2 entry e2 of a page
HwWalkP2(m, page, e2) ==
    IF "PRESENT" \notin e2.flags THEN None
    ELSE IF "HUGE_PAGE" \in e2.flags THEN Some(e2.frame + p1_index(page))
    ELSE HwWalkP1(EntryAt(m, e2.frame, p1_index(page)))

\* the CPU's walk at the P3 entry e3 of a page
HwWalkP3(m, page, e3) ==
    IF "PRESENT" \notin e3.flags THEN None
    ELSE IF "HUGE_PAGE" \in e3.flags
    THEN Some(e3.frame + p2_index(page) * ENTRY_COUNT + p1_index(page))
    ELSE HwWalkP2(m, page, EntryAt(m, e3.frame, p2_index(page)))

\* the CPU's walk at the P4 entry e4 of a page
HwWalkP4(m, page, e4) ==
    IF "PRESENT" \notin e4.flags THEN None
    ELSE HwWalkP3(m, page, EntryAt(m, e4.frame, p3_index(page)))

\* The walk the CPU makes from CR3 to find the frame of a virtual page.
\* Every reference to a table in the code is a virtual address (P4 is
\* 0xffff_ffff_ffff_f000, the others come from next_table_address), which
\* the CPU resolves by this walk.
HwWalk(m, page) == HwWalkP4(m, page, EntryAt(m, m.cr3, p4_index(page)))

\* table::P4 = 0xffff_ffff_ffff_f000
P4 == <<TwoTo25 - 1, TwoTo27 - 1>>

\* the entry at an index of the table in the frame fr the walk found
EntryOfFrame(m, fr, index) ==
    IF fr = None THEN UnusedEntry ELSE EntryAt(m, Unwrap(fr), index)

\* Index for Table: self[index], read through the table's virtual address
Table_index(m, table, index) == EntryOfFrame(m, HwWalk(m, table), index)

\* the contents of a table with one entry replaced
TableWith(t, index, e) ==
    IF e = UnusedEntry
    THEN [j \in DOMAIN t \ {index} |-> t[j]]
    ELSE [j \in DOMAIN t \cup {index} |-> IF j = index THEN e ELSE t[j]]

\* physical memory with the contents of one frame replaced
MemWith(memory, frame, t) ==
    [f \in DOMAIN memory \cup {frame} |-> IF f = frame THEN t ELSE memory[f]]

\* a write of an entry to the table in the frame fr the walk found; a
\* write through an address that the CPU cannot resolve faults
WriteEntry(m, fr, index, e) ==
    IF fr = None THEN [m EXCEPT !.panic = TRUE]
    ELSE [m EXCEPT !.mem =
             MemWith(@, Unwrap(fr),
                 TableWith(IF Unwrap(fr) \in DOMAIN @ THEN @[Unwrap(fr)] ELSE <<>>,
                           index, e))]

\* IndexMut for Table: self[index] = e
Table_index_set(m, table, index, e) == WriteEntry(m, HwWalk(m, table), index, e)

\* set_unused on every entry of the table in the frame fr the walk found
ZeroFrame(m, fr) ==
    IF fr = None THEN [m EXCEPT !.panic = TRUE]
    ELSE [m EXCEPT !.mem = MemWith(@, Unwrap(fr), <<>>)]

\* Table::zero
Table_zero(m, table) == ZeroFrame(m, HwWalk(m, table))

\* ((self as usize) << 9) | (index << 12), on page numbers
next_table_address_unchecked(table, index) ==
    << (table[1] % TwoTo16) * TwoTo9 + table[2] \div TwoTo18,
       (table[2] % TwoTo18) * TwoTo9 + index >>

\* next_table_address, given the flags of self[index]
next_table_address_flags(entry_flags, table, index) ==
    IF "PRESENT" \in entry_flags /\ "HUGE_PAGE" \notin entry_flags
    THEN Some(next_table_address_unchecked(table, index))
    ELSE None

next_table_address(m, table, index) ==
    next_table_address_flags(Entry_flags(Table_index(m, table, index)), table, index)

\* next_table and next_table_mut: the table at the address, if there is one
next_table(m, table, index) == next_table_address(m, table, index)

\* the machine after the allocator has returned r
kalloc_frame_result(m, r) ==
    [m |-> [m EXCEPT !.fa = r.alloc,
                     !.ret = r.ret,
                     !.hist = IF IsSome(r.ret) THEN Append(@, Unwrap(r.ret)) ELSE @],
     ret |-> r.ret]

\* TinyAllocator (the allocator of the temporary page): three slots that
\* hold a frame or nothing; allocate_frame takes the first frame there is
TinyAllocator_allocate_frame(a) ==
    IF \E i \in 1..3 : a.slots[i] # None
    THEN [alloc |-> [a EXCEPT !.slots[CHOOSE i \in 1..3 :
                                        /\ a.slots[i] # None
                                        /\ \A j \in 1..(i - 1) : a.slots[j] = None] = None],
          ret |-> a.slots[CHOOSE i \in 1..3 :
                             /\ a.slots[i] # None
                             /\ \A j \in 1..(i - 1) : a.slots[j] = None]]
    ELSE [alloc |-> a, ret |-> None]

\* TinyAllocator::deallocate_frame: the frame goes into the first empty
\* slot; with no empty slot the call panics
TinyAllocator_deallocate_frame(a, frame) ==
    IF \E i \in 1..3 : a.slots[i] = None
    THEN [a EXCEPT !.slots[CHOOSE i \in 1..3 :
                              /\ a.slots[i] = None
                              /\ \A j \in 1..(i - 1) : a.slots[j] # None] = Some(frame)]
    ELSE [a EXCEPT !.full = TRUE]

\* A: FrameAllocator is the area frame allocator or the TinyAllocator
IsTiny(a) == "slots" \in DOMAIN a

\* the allocator call of the paging code (kalloc_frame): the machine after
\* the call and the returned Option<Frame>
kalloc_frame(m) ==
    kalloc_frame_result(m, IF IsTiny(m.fa) THEN TinyAllocator_allocate_frame(m.fa)
                           ELSE allocate_frame(m.fa))

\* the allocator call of the paging code (kfree_frame)
kfree_frame(m, frame) ==
    IF IsTiny(m.fa)
    THEN [m EXCEPT !.fa = TinyAllocator_deallocate_frame(m.fa, frame),
                   !.panic = TinyAllocator_deallocate_frame(m.fa, frame).full,
                   !.freed = @ \cup {[frame |-> frame, at |-> Len(m.hist)]}]
    ELSE [m EXCEPT !.fa = deallocate_frame(m.fa, frame),
                   !.freed = @ \cup {[frame |-> frame, at |-> Len(m.hist)]}]

\* next_table_create with no next table: the allocator has returned a
next_table_create_frame(a, table, index) ==
    IF a.ret = None
    THEN [m |-> [a.m EXCEPT !.panic = TRUE], table |-> table]
    ELSE [m |-> Table_zero(
                    Table_index_set(a.m, table, index,
                        Entry_set(Unwrap(a.ret), {"PRESENT", "WRITABLE"})),
                    next_table_address_unchecked(table, index)),
          table |-> next_table_address_unchecked(table, index)]

\* next_table_create, given self.next_table(index)
next_table_create_from(m, table, index, nt) ==
    IF nt = None
    THEN IF "HUGE_PAGE" \in Entry_flags(Table_index(m, table, index))
         THEN [m |-> [m EXCEPT !.panic = TRUE], table |-> table]
         ELSE next_table_create_frame(kalloc_frame(m), table, index)
    ELSE [m |-> m, table |-> Unwrap(nt)]

\* Table::next_table_create: the machine afterwards and the table
next_table_create(m, table, index) ==
    IF m.panic THEN [m |-> m, table |-> table]
    ELSE next_table_create_from(m, table, index, next_table(m, table, index))

----------------------------------------------------------------------------
(* memory/paging/mapper.rs                                                 *)

\* calculate_huge_page_frame at the P2 entry of the page
huge_page_frame_p2_entry(page, p2_entry) ==
    IF Entry_pointed_frame(p2_entry) # None /\ "HUGE_PAGE" \in Entry_flags(p2_entry)
    THEN Some(Unwrap(Entry_pointed_frame(p2_entry)) + p1_index(page))
    ELSE None

\* calculate_huge_page_frame at p3.next_table(page.p3_index())
huge_page_frame_p2(m, page, p2) ==
    IF p2 = None THEN None
    ELSE huge_page_frame_p2_entry(page, Table_index(m, Unwrap(p2), p2_index(page)))

\* a calculate_huge_page_frame that leaves the P2 index out of the frame of
\* a 1GiB page
huge_page_frame_p3_entry_no_p2(m, p3, page, p3_entry) ==
    IF Entry_pointed_frame(p3_entry) # None /\ "HUGE_PAGE" \in Entry_flags(p3_entry)
    THEN Some(Unwrap(Entry_pointed_frame(p3_entry)) + p1_index(page))
    ELSE huge_page_frame_p2(m, page, next_table(m, p3, p3_index(page)))

\* calculate_huge_page_frame at the P3 entry of the page
huge_page_frame_p3_entry(m, p3, page, p3_entry) ==
    IF Entry_pointed_frame(p3_entry) # None /\ "HUGE_PAGE" \in Entry_flags(p3_entry)
    THEN Some(Unwrap(Entry_pointed_frame(p3_entry))
                 + p2_index(page) * ENTRY_COUNT + p1_index(page))
    ELSE huge_page_frame_p2(m, page, next_table(m, p3, p3_index(page)))

\* Mapper::calculate_huge_page_frame, given Some(p3)
calculate_huge_page_frame(m, p3, page) ==
    huge_page_frame_p3_entry(m, p3, page, Table_index(m, p3, p3_index(page)))

\* the alignment assertion on a huge P2 entry fails
huge_page_assert_p2_entry(p2_entry) ==
    /\ Entry_pointed_frame(p2_entry) # None
    /\ "HUGE_PAGE" \in Entry_flags(p2_entry)
    /\ Unwrap(Entry_pointed_frame(p2_entry)) % ENTRY_COUNT # 0

\* the alignment assertion below p3.next_table(page.p3_index()) fails
huge_page_assert_p2(m, page, p2) ==
    /\ p2 # None
    /\ huge_page_assert_p2_entry(Table_index(m, Unwrap(p2), p2_index(page)))

\* the alignment assertion on a huge P3 entry, or one below it, fails
huge_page_assert_p3_entry(m, p3, page, p3_entry) ==
    IF Entry_pointed_frame(p3_entry) # None /\ "HUGE_PAGE" \in Entry_flags(p3_entry)
    THEN Unwrap(Entry_pointed_frame(p3_entry)) % (ENTRY_COUNT * ENTRY_COUNT) # 0
    ELSE huge_page_assert_p2(m, page, next_table(m, p3, p3_index(page)))

\* the two alignment assertions of calculate_huge_page_frame
huge_page_assert_fails(m, p3, page) ==
    huge_page_assert_p3_entry(m, p3, page, Table_index(m, p3, p3_index(page)))

\* and_then(|t| t.next_table(index)) on an Option of a table
and_then_next_table(m, t, index) ==
    IF t = None THEN None ELSE next_table(m, Unwrap(t), index)

\* the P1 table of a page, if the walk through P4, P3 and P2 finds one
p1_table(m, page) ==
    and_then_next_table(m,
        and_then_next_table(m, next_table(m, P4, p4_index(page)), p3_index(page)),
        p2_index(page))

\* and_then(|p1| p1[page.p1_index()].pointed_frame())
and_then_pointed_frame(m, p1, page) ==
    IF p1 = None THEN None
    ELSE Entry_pointed_frame(Table_index(m, Unwrap(p1), p1_index(page)))

\* or_else(|| calculate_huge_page_frame(p3, page)) on the frame f
or_else_huge_page_frame(m, f, p3, page) ==
    IF f # None THEN f
    ELSE IF p3 = None THEN None
    ELSE calculate_huge_page_frame(m, Unwrap(p3), page)

\* Mapper::translate_page
translate_page(m, page) ==
    or_else_huge_page_frame(m, and_then_pointed_frame(m, p1_table(m, page), page),
                            next_table(m, P4, p4_index(page)), page)

\* an assertion fails in the or_else of translate_page
or_else_panics(m, f, p3, page) ==
    f = None /\ p3 # None /\ huge_page_assert_fails(m, Unwrap(p3), page)

\* translate_page panics in calculate_huge_page_frame
translate_page_panics(m, page) ==
    or_else_panics(m, and_then_pointed_frame(m, p1_table(m, page), page),
                   next_table(m, P4, p4_index(page)), page)

\* frame.start_address() + offset on the Option of translate_page
map_start_plus_offset(frame, offset) ==
    IF frame = None THEN None
    ELSE Some(AddrAdd(Frame_start_address(Unwrap(frame)), offset))

\* translate that drops the offset into the page
translate_page_start(m, addr) ==
    map_start_plus_offset(translate_page(m, Page_containing_address(addr)), 0)

\* Mapper::translate
translate(m, addr) ==
    map_start_plus_offset(translate_page(m, Page_containing_address(addr)), addr.off)

\* next_table_create on the table that a next_table_create returned
then_next_table_create(r, index) == next_table_create(r.m, r.table, index)

\* the three next_table_create calls of map_to: the machine and the P1 table
create_p1(m, page) ==
    then_next_table_create(
        then_next_table_create(next_table_create(m, P4, p4_index(page)),
                               p3_index(page)),
        p2_index(page))

\* a write of the P1 entry that does not ask whether the entry is unused
set_p1_entry_overwrite(r1, page, frame, flags) ==
    IF r1.m.panic THEN r1.m
    ELSE Table_index_set(r1.m, r1.table, p1_index(page), Entry_set(frame, flags))

\* the assertion and the write of the P1 entry in map_to
set_p1_entry(r1, page, frame, flags) ==
    IF r1.m.panic THEN r1.m
    ELSE IF ~Entry_is_unused(Table_index(r1.m, r1.table, p1_index(page)))
    THEN [r1.m EXCEPT !.panic = TRUE]
    ELSE Table_index_set(r1.m, r1.table, p1_index(page), Entry_set(frame, flags))

\* map_to that sets the entry with the caller's flags only
map_to_flags_only(m, page, frame, flags) ==
    set_p1_entry(create_p1(m, page), page, frame, flags)

\* Mapper::map_to
map_to(m, page, frame, flags) ==
    set_p1_entry(create_p1(m, page), page, frame, flags \cup {"PRESENT"})

\* map, after the allocator has returned a
map_frame(a, page, flags) ==
    IF a.ret = None THEN [a.m EXCEPT !.panic = TRUE]
    ELSE map_to(a.m, page, Unwrap(a.ret), flags)

\* Mapper::map: the machine afterwards
map(m, page, flags) == map_frame(kalloc_frame(m), page, flags)

\* Mapper::id_map
id_map(m, frame, flags) ==
    IF ~IsCanonical(Frame_start_address(frame)) THEN [m EXCEPT !.panic = TRUE]
    ELSE map_to(m, Page_containing_address(Frame_start_address(frame)), frame, flags)

\* an unmap that clears the P1 entry and keeps the frame
unmap_frame_no_free(m, page, p1, frame) ==
    IF frame = None THEN [m EXCEPT !.panic = TRUE]
    ELSE Table_index_set(m, Unwrap(p1), p1_index(page), UnusedEntry)

\* an unmap that also takes the page's P1 table out of its P2 table
unmap_frame_reclaim(m, page, p1, frame) ==
    IF frame = None THEN [m EXCEPT !.panic = TRUE]
    ELSE kfree_frame(
             Table_index_set(
                 Table_index_set(m, Unwrap(p1), p1_index(page), UnusedEntry),
                 Unwrap(and_then_next_table(m, next_table(m, P4, p4_index(page)),
                                            p3_index(page))),
                 p2_index(page), UnusedEntry),
             Unwrap(frame))

\* unmap, given the frame of the P1 entry
unmap_frame(m, page, p1, frame) ==
    IF frame = None THEN [m EXCEPT !.panic = TRUE]
    ELSE kfree_frame(Table_index_set(m, Unwrap(p1), p1_index(page), UnusedEntry),
                     Unwrap(frame))

\* unmap, given the P1 table of the page
unmap_p1(m, page, p1) ==
    IF p1 = None THEN [m EXCEPT !.panic = TRUE]
    ELSE unmap_frame(m, page, p1,
                     Entry_pointed_frame(Table_index(m, Unwrap(p1), p1_index(page))))

\* Mapper::unmap
unmap(m, page) ==
    IF translate_page_panics(m, page) \/ translate(m, Page_start_address(page)) = None
    THEN [m EXCEPT !.panic = TRUE]
    ELSE unmap_p1(m, page, p1_table(m, page))

----------------------------------------------------------------------------
(* memory/stack_allocator.rs                                               *)

\* a < b on addresses
AddrLess(a, b) ==
    \/ ~NumLeq(b.num, a.num)
    \/ (a.num = b.num /\ a.off < b.off)

\* Stack::new: the assertion top > bottom fails
Stack_new_panics(top, bottom) == ~AddrLess(bottom, top)

Stack_new(top, bottom) == [top |-> top, bottom |-> bottom]

\* for page in Page::range_inclusive(start, end) { active_table.map(..) }
RECURSIVE map_range(_, _, _)
map_range(m, it, flags) ==
    IF m.panic \/ PageIter_next(it).item = None THEN m
    ELSE map_range(map(m, Unwrap(PageIter_next(it).item), flags),
                   PageIter_next(it).it, flags)

\* alloc_stack after the pages are mapped: self.range = range and
\* Stack::new(top, bottom)
alloc_stack_mapped(m1, rest, stack_top, bottom) ==
    IF m1.panic
    THEN [m |-> m1, range |-> rest, ret |-> None]
    ELSE IF Stack_new_panics(stack_top, bottom)
    THEN [m |-> [m1 EXCEPT !.panic = TRUE], range |-> rest, ret |-> None]
    ELSE [m |-> m1, range |-> rest, ret |-> Some(Stack_new(stack_top, bottom))]

\* alloc_stack, given range.next() for the first and the last page of the
\* stack
alloc_stack_end(m, self_range, stack_start, stack_end) ==
    IF stack_start.item # None /\ stack_end.item # None
    THEN alloc_stack_mapped(
             map_range(m, [start |-> Unwrap(stack_start.item),
                           end |-> Unwrap(stack_end.item)], {"WRITABLE"}),
             stack_end.it,
             AddrAdd(Page_start_address(Unwrap(stack_end.item)), PAGE_SIZE),
             Page_start_address(Unwrap(stack_start.item)))
    ELSE [m |-> m, range |-> self_range, ret |-> None]

\* alloc_stack, given range.next() for the first page of the stack
alloc_stack_start(m, self_range, n_pages, stack_start) ==
    alloc_stack_end(m, self_range, stack_start,
                    IF n_pages = 1 THEN stack_start
                    ELSE PageIter_nth(stack_start.it, n_pages - 2))

\* alloc_stack, given range.next() for the guard page
alloc_stack_guard(m, self_range, n_pages, guard_page) ==
    IF guard_page.item = None
    THEN [m |-> m, range |-> self_range, ret |-> None]
    ELSE alloc_stack_start(m, self_range, n_pages, PageIter_next(guard_page.it))

\* alloc_stack that takes no guard page from the range
alloc_stack_no_guard(m, self_range, n_pages) ==
    IF n_pages = 0 THEN [m |-> m, range |-> self_range, ret |-> None]
    ELSE alloc_stack_start(m, self_range, n_pages, PageIter_next(self_range))

\* a failed call that keeps the pages its clone of the range has taken
alloc_stack_commit_failed(self_range, n_pages, r) ==
    IF r.ret = None /\ ~r.m.panic
    THEN [r EXCEPT !.range = PageIter_nth(self_range, n_pages).it]
    ELSE r

\* alloc_stack that writes the advanced range back also when it fails
alloc_stack_keep_cursor(m, self_range, n_pages) ==
    IF n_pages = 0 THEN [m |-> m, range |-> self_range, ret |-> None]
    ELSE alloc_stack_commit_failed(
             self_range, n_pages,
             alloc_stack_guard(m, self_range, n_pages, PageIter_next(self_range)))

\* alloc_stack that leaves self.range as it is when it returns a stack
alloc_stack_no_advance(m, self_range, n_pages) ==
    IF n_pages = 0 THEN [m |-> m, range |-> self_range, ret |-> None]
    ELSE [alloc_stack_guard(m, self_range, n_pages, PageIter_next(self_range))
             EXCEPT !.range = self_range]

\* StackAllocator::alloc_stack: the machine, the allocator's range and the
\* returned Option<Stack>
alloc_stack(m, self_range, n_pages) ==
    IF n_pages = 0 THEN [m |-> m, range |-> self_range, ret |-> None]
    ELSE alloc_stack_guard(m, self_range, n_pages, PageIter_next(self_range))

----------------------------------------------------------------------------
(* The mapper and the stack allocator on the page tables the boot code     *)
(* leaves: a P4 table whose entry 511 points at itself, and the first      *)
(* 2 MiB identity-mapped by a huge page.  Any sequence of map_to, map,     *)
(* id_map, unmap and alloc_stack calls; a panic stops the kernel.          *)

\* the frames of memory's one area, and of them the frames the kernel image
\* (with the boot page tables) and the boot information occupy
PagingFrames == 9

StackFrames == 12

BootP4Frame == 1

BootP3Frame == BootP4Frame + 1

BootP2Frame == BootP3Frame + 1

PagingKernelEnd == BootP2Frame

PagingMbiFrame == PagingKernelEnd + 1

\* the page of test_paging (the 42nd P3 entry) and its neighbour, and the
\* identity pages of the frames below: one outside the boot huge page and
\* the VGA buffer's, which is inside it
TestPage == Num(42 * 512 * 512)

MapFrames == {512, 184}

MapPages ==
    {TestPage, NumAdd(TestPage, 1)} \cup { Num(f) : f \in MapFrames }

\* the pages that map is called with
MapFreshPages == {NumAdd(TestPage, 1)}

MapFlags == {{}, {"WRITABLE"}}

\* the stack allocator's range: MaxStackRange + 1 pages that nothing else maps
StackRangeStart == 2 * ENTRY_COUNT - 4

MaxStackShift == 3

MaxStackRange == 8

MaxStackPages == 2

\* the machine at the start of an operation; hist and freed record the
\* allocator calls of that one operation
Machine ==
    [mem |-> mem, cr3 |-> cr3, fa |-> fa, ret |-> None, hist |-> <<>>,
     freed |-> {}, panic |-> panicked]

\* the variables take the machine's values
SetMachine(m) ==
    /\ mem' = m.mem
    /\ cr3' = m.cr3
    /\ fa' = m.fa
    /\ panicked' = m.panic
    /\ UNCHANGED <<fa_ret, fa_hist, fa_freed, heapvars, execvars, auxvars>>

\* the page tables at kernel entry
BootMem ==
    (BootP4Frame :> (0 :> Entry_set(BootP3Frame, {"PRESENT", "WRITABLE"})
                     @@ 511 :> Entry_set(BootP4Frame, {"PRESENT", "WRITABLE"})))
    @@ (BootP3Frame :> (0 :> Entry_set(BootP2Frame, {"PRESENT", "WRITABLE"})))
    @@ (BootP2Frame :> (0 :> Entry_set(0, {"PRESENT", "WRITABLE", "HUGE_PAGE"})))

\* the frame allocator memory::init makes
BootAllocator(frames) ==
    AreaFrameAllocator_new(0, PagingKernelEnd * PAGE_SIZE,
                           PagingMbiFrame * PAGE_SIZE, PagingMbiFrame * PAGE_SIZE,
                           <<[start |-> 0, size |-> frames * PAGE_SIZE]>>)

InitPaging ==
    /\ mem = BootMem
    /\ cr3 = BootP4Frame
    /\ fa = BootAllocator(PagingFrames)
    /\ fa_ret = None
    /\ fa_hist = <<>>
    /\ fa_freed = {}
    /\ range = [start |-> Num(1), end |-> Num(0)]
    /\ stacks = <<>>
    /\ panicked = FALSE
    /\ lastOp = NoOp
    /\ InitHeapVars
    /\ InitExecVars
    /\ InitAuxVars

\* what the last operation was, if it returned
Before == IF panicked THEN "none" ELSE lastOp.op

MapTo ==
    \E page \in MapPages, frame \in MapFrames, flags \in MapFlags :
        /\ ~panicked
        /\ SetMachine(map_to(Machine, page, frame, flags))
        /\ lastOp' = [NoOp EXCEPT !.op = "map_to", !.page = page, !.frame = frame,
                                  !.was = translate_page(Machine, page)]
        /\ UNCHANGED <<range, stacks>>

Map ==
    \E page \in MapFreshPages :
        /\ ~panicked
        /\ SetMachine(map(Machine, page, {"WRITABLE"}))
        /\ lastOp' = [NoOp EXCEPT !.op = "map", !.page = page,
                                  !.was = translate_page(Machine, page)]
        /\ UNCHANGED <<range, stacks>>

IdMap ==
    \E frame \in MapFrames, flags \in MapFlags :
        /\ ~panicked
        /\ SetMachine(id_map(Machine, frame, flags))
        /\ lastOp' = [NoOp EXCEPT !.op = "id_map", !.page = Num(frame), !.frame = frame,
                                  !.was = translate_page(Machine, Num(frame))]
        /\ UNCHANGED <<range, stacks>>

Unmap ==
    \E page \in MapPages :
        /\ ~panicked
        /\ SetMachine(unmap(Machine, page))
        /\ lastOp' = [NoOp EXCEPT !.op = "unmap", !.page = page,
                                  !.freed = { r.frame : r \in unmap(Machine, page).freed },
                                  !.was = translate_page(Machine, page),
                                  !.after = IF lastOp.page = page THEN Before ELSE "none"]
        /\ UNCHANGED <<range, stacks>>

NextPaging == MapTo \/ Map \/ IdMap \/ Unmap

SpecPaging == InitPaging /\ [][NextPaging]_vars

\* C3: after map_to(p, f, flags) has returned for a page p that was not
\* mapped, translate(p.start) is Some(f.start), whatever the flags; after an
\* unmap(p) that directly follows it, translate(p.start) is None.
C3_MapToThenUnmap ==
    /\ (lastOp.op = "map_to" /\ lastOp.was = None /\ ~panicked) =>
          translate(Machine, Page_start_address(lastOp.page))
            = Some(Frame_start_address(lastOp.frame))
    /\ (lastOp.op = "unmap" /\ lastOp.after = "map_to" /\ ~panicked) =>
          translate(Machine, Page_start_address(lastOp.page)) = None

\* unmap(p) has returned directly after a map_to(p, f, flags) that returned
C3_Witness ==
    /\ lastOp.op = "unmap"
    /\ lastOp.after = "map_to"
    /\ lastOp.page = TestPage
    /\ ~panicked

\* the walk to the page's P1 table finds one, and the page's entry in it is
\* in use
L1EntryUsed(m, page) ==
    /\ p1_table(m, page) # None
    /\ ~Entry_is_unused(Table_index(m, Unwrap(p1_table(m, page)), p1_index(page)))

\* the entry of t for the page at a level is marked HUGE_PAGE
HugeEntry(m, t, index) ==
    /\ t # None
    /\ "HUGE_PAGE" \in Entry_flags(Table_index(m, Unwrap(t), index))

\* the walk from P4 towards the page's P1 table meets an entry marked
\* HUGE_PAGE
HugeOnWalk(m, page) ==
    \/ HugeEntry(m, Some(P4), p4_index(page))
    \/ HugeEntry(m, next_table(m, P4, p4_index(page)), p3_index(page))
    \/ HugeEntry(m, and_then_next_table(m, next_table(m, P4, p4_index(page)),
                                        p3_index(page)),
                 p2_index(page))

\* C18: a map_to (called directly, by map or by id_map) for a page whose P1
\* entry is in use panics and leaves every page table as it was; a map_to
\* whose walk meets an entry marked HUGE_PAGE panics.
C18_MapToPanics ==
    [][lastOp'.op \in {"map_to", "map", "id_map"} =>
          /\ L1EntryUsed(Machine, lastOp'.page) => (panicked' /\ mem' = mem)
          /\ HugeOnWalk(Machine, lastOp'.page) => panicked']_vars

\* map_to has panicked for a mapped page and another frame, and the page
\* still translates to the frame it was mapped to
C18_Witness ==
    /\ panicked
    /\ lastOp.op = "map_to"
    /\ lastOp.page = TestPage
    /\ lastOp.was # None
    /\ lastOp.was # Some(lastOp.frame)
    /\ translate_page([Machine EXCEPT !.panic = FALSE], TestPage) = lastOp.was

\* C19: unmap of a page that is not mapped panics, unmap of a page whose
\* walk meets an entry marked HUGE_PAGE panics, and an unmap that returns has
\* passed the frame the page was mapped to, and no other frame, to the
\* allocator's kfree_frame.
C19_UnmapFreesFrame ==
    [][lastOp'.op = "unmap" =>
          /\ translate_page(Machine, lastOp'.page) = None => panicked'
          /\ HugeOnWalk(Machine, lastOp'.page) => panicked'
          /\ ~panicked' =>
                /\ translate_page(Machine, lastOp'.page) # None
                /\ lastOp'.freed = {Unwrap(translate_page(Machine, lastOp'.page))}
                /\ translate_page(Machine', lastOp'.page) = None]_vars

\* unmap has returned for a page that id_map had mapped to frame 512, and
\* that frame went to kfree_frame
C19_Witness ==
    /\ lastOp.op = "unmap"
    /\ lastOp.page = Num(512)
    /\ lastOp.was = Some(512)
    /\ lastOp.freed = {512}
    /\ ~panicked

\* the pages of the operations, their neighbours in the same P1 tables, the
\* first page, and the pages at which the recursive entry shows the test
\* page's P1 table and the P4 table
OtherPages ==
    MapPages \cup {Num(0), Num(513), <<511, 42 * 512>>, P4}

\* the P3, P2 and P1 tables on the walk to the page
WalkTables(m, page) ==
    { next_table(m, P4, p4_index(page)),
      and_then_next_table(m, next_table(m, P4, p4_index(page)), p3_index(page)),
      p1_table(m, page) }

\* the frame of the page's P1 table
P1Frame(m, page) == HwWalk(m, Unwrap(p1_table(m, page)))

\* the frames of the tables in ts
TableFrames(m, ts) == { HwWalk(m, Unwrap(t)) : t \in ts \ {None} }

\* memory differs between a and b in no entry but the one at the index of
\* the table in the frame
OneEntryChanged(a, b, frame, index) ==
    /\ DOMAIN b = DOMAIN a
    /\ \A f \in DOMAIN a \ {frame} : b[f] = a[f]
    /\ frame \in DOMAIN a
    /\ DOMAIN b[frame] \ {index} = DOMAIN a[frame] \ {index}
    /\ \A i \in DOMAIN a[frame] \ {index} : b[frame][i] = a[frame][i]

\* what C35 says of an unmap of the page that took the machine from m0 to
\* m1 and freed the frames in freed, the tables on the walk being ts
UnmapChangesOnlyPage(m0, m1, page, freed, ts) ==
    /\ \A q \in OtherPages \ {page} : translate_page(m1, q) = translate_page(m0, q)
    /\ None \notin ts
    /\ WalkTables(m1, page) = ts
    /\ TableFrames(m1, ts) = TableFrames(m0, ts)
    /\ None \notin TableFrames(m0, ts)
    /\ \A f \in TableFrames(m0, ts) : Unwrap(f) \notin freed
    /\ OneEntryChanged(m0.mem, m1.mem, Unwrap(P1Frame(m0, page)), p1_index(page))

\* C35: an unmap(p) that returns changes the translation of p only: every
\* other page translates as before, and the P3, P2 and P1 tables on p's walk
\* are still there, in the same frames, none of them freed, also when the
\* P1 table has no entry left; the one change to memory is p's P1 entry.
C35_UnmapChangesOnlyPage ==
    [][(lastOp'.op = "unmap" /\ ~panicked') =>
          \A m0 \in {Machine} : \A m1 \in {Machine'} :
              \A ts \in {WalkTables(m0, lastOp'.page)} :
                  UnmapChangesOnlyPage(m0, m1, lastOp'.page, lastOp'.freed, ts)]_vars

\* unmap has returned for the test page, its P1 table has no entry left and
\* is still on the walk, and the page of frame 512 is still mapped
C35_Witness ==
    /\ lastOp.op = "unmap"
    /\ lastOp.page = TestPage
    /\ ~panicked
    /\ p1_table(Machine, TestPage) # None
    /\ P1Frame(Machine, TestPage) # None
    /\ \A i \in 0..(ENTRY_COUNT - 1) :
          EntryAt(Machine, Unwrap(P1Frame(Machine, TestPage)), i) = UnusedEntry
    /\ translate_page(Machine, Num(512)) = Some(512)

\* offsets into a page: both ends and two inside
OffsetSamples == {0, 1, 2048, PAGE_SIZE - 1}

\* C9: after id_map(f, flags) has returned for a frame f whose page was not
\* mapped, translate(f.start_address + off) is Some(f.start_address + off)
\* for the offsets off into the page.
C9_IdMapRoundTrip ==
    (lastOp.op = "id_map" /\ lastOp.was = None /\ ~panicked) =>
        \A off \in OffsetSamples :
            translate(Machine, AddrAdd(Frame_start_address(lastOp.frame), off))
              = Some(AddrAdd(Frame_start_address(lastOp.frame), off))

\* id_map has returned for frame 512, whose page needed a new P1 table
C9_Witness ==
    /\ lastOp.op = "id_map"
    /\ lastOp.was = None
    /\ lastOp.frame = 512
    /\ ~panicked

----------------------------------------------------------------------------
(* The stack allocator on the same boot page tables: a range of pages that *)
(* nothing else maps, then any sequence of alloc_stack calls.              *)

InitStack ==
    /\ \E first \in StackRangeStart..StackRangeStart + MaxStackShift,
          len \in 0..MaxStackRange :
          range = [start |-> Num(first), end |-> Num(first + len)]
    /\ mem = BootMem
    /\ cr3 = BootP4Frame
    /\ fa = BootAllocator(StackFrames)
    /\ fa_ret = None
    /\ fa_hist = <<>>
    /\ fa_freed = {}
    /\ stacks = <<>>
    /\ panicked = FALSE
    /\ lastOp = NoOp
    /\ InitHeapVars
    /\ InitExecVars
    /\ InitAuxVars

AllocStack ==
    \E n \in 0..MaxStackPages :
        \E r \in {alloc_stack(Machine, range, n)} :
           /\ ~panicked
           /\ SetMachine(r.m)
           /\ range' = r.range
           /\ stacks' = IF r.ret = None THEN stacks
                         ELSE Append(stacks, [stack |-> Unwrap(r.ret), n |-> n,
                                              guard |-> range.start])
           /\ lastOp' = [NoOp EXCEPT !.op = "alloc_stack", !.n = n, !.ret = r.ret]

NextStack == AllocStack

SpecStack == InitStack /\ [][NextStack]_vars

\* C8: every Stack that alloc_stack(n) has returned has
\* top - bottom = n * 4096, and the guard page taken from the range is the
\* page directly below bottom and is not mapped.
C8_StackSizeAndGuard ==
    \A i \in DOMAIN stacks :
        /\ stacks[i].n >= 1
        /\ stacks[i].stack.top
             = AddrAdd(stacks[i].stack.bottom, stacks[i].n * PAGE_SIZE)
        /\ Page_start_address(NumAdd(stacks[i].guard, 1)) = stacks[i].stack.bottom
        /\ translate_page(Machine, stacks[i].guard) = None

\* two stacks were returned, one of them of two pages
C8_Witness ==
    /\ Len(stacks) >= 2
    /\ \E i \in DOMAIN stacks : stacks[i].n = 2
    /\ ~panicked

\* the number of pages the range still holds
PagesLeft(it) ==
    IF NumLeq(it.start, it.end)
    THEN (it.end[1] - it.start[1]) * TwoTo27 + it.end[2] - it.start[2] + 1
    ELSE 0

\* C17: a call alloc_stack(n) with n = 0, or with fewer than n + 1 pages
\* left in the range, returns None, leaves the range, the page tables and
\* the frame allocator as they are and does not panic; and a request for
\* fewer pages that the unchanged range can hold with its guard page then
\* returns a stack, unless mapping it panics.
C17_FailedAllocStack ==
    [][(lastOp'.op = "alloc_stack"
           /\ (lastOp'.n = 0 \/ PagesLeft(range) < lastOp'.n + 1)) =>
          /\ lastOp'.ret = None
          /\ UNCHANGED <<range, mem, cr3, fa, stacks, panicked>>
          /\ \A k \in 1..MaxStackPages :
                (k < lastOp'.n /\ k + 1 <= PagesLeft(range'))
                   => \E r \in {alloc_stack(Machine', range', k)} :
                         r.ret # None \/ r.m.panic]_vars

\* after a stack was returned, a request for two pages has failed with two
\* pages left in the range: enough for a guard page and a stack of one page
C17_Witness ==
    /\ lastOp.op = "alloc_stack"
    /\ lastOp.n = 2
    /\ lastOp.ret = None
    /\ PagesLeft(range) = 2
    /\ Len(stacks) >= 1
    /\ ~panicked

----------------------------------------------------------------------------
(* heap/list.rs and memory/heap/mod.rs: the linked-list heap allocator.    *)
(* Heap addresses are plain integers; the heap of the model is a small     *)
(* one at a low address.                                                   *)

\* the largest size of a request: isize::MAX rounded down to the largest
\* alignment
BigSize == (UsizeMax + 1) \div 2 - 16

\* the layouts of the requests
LayoutSizes == {4, 24, BigSize}

LayoutAligns == {4, 16}

\* align_up: addr rounded up to a multiple of align
align_up(addr, align) == ((addr + align - 1) \div align) * align

\* usize::checked_add
checked_add(a, b) == IF a + b > UsizeMax THEN None ELSE Some(a + b)

\* ListNode::end_addr
end_addr(region) == region.addr + region.size

\* the two assertions of add_free_mem_region
add_free_mem_region_panics(addr, size) ==
    \/ align_up(addr, ListNode_align) # addr
    \/ size < ListNode_size

\* add_free_mem_region that links the new node at the end of the list
add_free_mem_region_at_tail(list, addr, size) ==
    list \o <<[addr |-> addr, size |-> size]>>

\* add_free_mem_region that merges the new region with a free region that
\* starts where it ends
add_free_mem_region_merging(list, addr, size) ==
    IF \E i \in DOMAIN list : list[i].addr = addr + size
    THEN LET i == CHOOSE k \in DOMAIN list : list[k].addr = addr + size
         IN <<[addr |-> addr, size |-> size + list[i].size]>>
               \o SubSeq(list, 1, i - 1) \o SubSeq(list, i + 1, Len(list))
    ELSE <<[addr |-> addr, size |-> size]>> \o list

\* Allocator::add_free_mem_region: the new node becomes head.next
add_free_mem_region(list, addr, size) ==
    <<[addr |-> addr, size |-> size]>> \o list

\* alloc_from_region without the test that the allocation ends inside the
\* region
alloc_from_region_no_end_check(region, size, align) ==
    LET alloc_start == align_up(region.addr, align)
        alloc_end == alloc_start + size
        remaining_size == end_addr(region) - alloc_end
    IN IF checked_add(alloc_start, size) = None THEN None
       ELSE IF remaining_size > 0 /\ remaining_size < ListNode_size THEN None
       ELSE Some(alloc_start)

\* alloc_from_region with a wrapping addition in place of checked_add
alloc_from_region_wrapping(region, size, align) ==
    LET alloc_start == align_up(region.addr, align)
        alloc_end == (alloc_start + size) % (UsizeMax + 1)
        remaining_size == end_addr(region) - alloc_end
    IN IF alloc_end > end_addr(region) THEN None
       ELSE IF remaining_size > 0 /\ remaining_size < ListNode_size THEN None
       ELSE Some(alloc_start)

\* Allocator::alloc_from_region
alloc_from_region(region, size, align) ==
    LET alloc_start == align_up(region.addr, align)
        alloc_end == alloc_start + size
        remaining_size == end_addr(region) - alloc_end
    IN IF checked_add(alloc_start, size) = None THEN None
       ELSE IF alloc_end > end_addr(region) THEN None
       ELSE IF remaining_size > 0 /\ remaining_size < ListNode_size THEN None
       ELSE Some(alloc_start)

\* the position in the list of the last region alloc_from_region accepts;
\* 0 if there is none
LastFit(list, size, align) ==
    IF \E i \in DOMAIN list : alloc_from_region(list[i], size, align) # None
    THEN CHOOSE i \in DOMAIN list :
            /\ alloc_from_region(list[i], size, align) # None
            /\ \A j \in (i + 1)..Len(list) : alloc_from_region(list[j], size, align) = None
    ELSE 0

\* the position in the list of the first region alloc_from_region accepts;
\* 0 if there is none
FirstFit(list, size, align) ==
    IF \E i \in DOMAIN list : alloc_from_region(list[i], size, align) # None
    THEN CHOOSE i \in DOMAIN list :
            /\ alloc_from_region(list[i], size, align) # None
            /\ \A j \in 1..(i - 1) : alloc_from_region(list[j], size, align) = None
    ELSE 0

\* the list without its i-th region
RemoveAt(list, i) ==
    SubSeq(list, 1, i - 1) \o SubSeq(list, i + 1, Len(list))

\* Allocator::find_free_mem_region: the list without the region found, the
\* region and the start of the allocation
find_free_mem_region(list, size, align) ==
    LET i == FirstFit(list, size, align)
    IN IF i = 0 THEN [list |-> list, found |-> None]
       ELSE [list |-> RemoveAt(list, i),
             found |-> Some([region |-> list[i],
                             alloc_start |-> Unwrap(alloc_from_region(list[i], size, align))])]

\* size_align that does not raise the size to that of a ListNode
size_align_no_min(layout) ==
    LET align == IF layout.align > ListNode_align THEN layout.align ELSE ListNode_align
    IN [size |-> align_up(layout.size, align), align |-> align]

\* Allocator::size_align: Layout::align_to(align_of ListNode), pad_to_align,
\* and the size at least that of a ListNode
size_align(layout) ==
    LET align == IF layout.align > ListNode_align THEN layout.align ELSE ListNode_align
        padded == align_up(layout.size, align)
    IN [size |-> IF padded > ListNode_size THEN padded ELSE ListNode_size,
        align |-> align]

\* alloc that does not put the rest of the region back on the list
alloc_drop_excess(list, layout) ==
    LET sa == size_align(layout)
        r == find_free_mem_region(list, sa.size, sa.align)
    IN IF r.found = None
       THEN [list |-> list, ptr |-> NULL, header |-> NULL, panic |-> FALSE]
       ELSE [list |-> r.list, ptr |-> Unwrap(r.found).alloc_start, header |-> NULL,
             panic |-> FALSE]

\* GlobalAlloc::alloc: the list afterwards, the returned pointer, the header
\* it wrote (its address, or NULL) and whether it panicked
alloc(list, layout) ==
    LET sa == size_align(layout)
        r == find_free_mem_region(list, sa.size, sa.align)
    IN IF r.found = None
       THEN [list |-> list, ptr |-> NULL, header |-> NULL, panic |-> FALSE]
       ELSE LET region == Unwrap(r.found).region
                alloc_start == Unwrap(r.found).alloc_start
                alloc_end == alloc_start + sa.size
                excess_size == end_addr(region) - alloc_end
            IN IF checked_add(alloc_start, sa.size) = None
               THEN [list |-> r.list, ptr |-> NULL, header |-> NULL, panic |-> FALSE]
               ELSE IF excess_size > 0
               THEN IF add_free_mem_region_panics(alloc_end, excess_size)
                    THEN [list |-> r.list, ptr |-> NULL, header |-> NULL, panic |-> TRUE]
                    ELSE [list |-> add_free_mem_region(r.list, alloc_end, excess_size),
                          ptr |-> alloc_start, header |-> alloc_end, panic |-> FALSE]
               ELSE [list |-> r.list, ptr |-> alloc_start, header |-> NULL,
                     panic |-> FALSE]

\* GlobalAlloc::dealloc
dealloc(list, ptr, layout) ==
    LET sa == size_align(layout)
    IN IF add_free_mem_region_panics(ptr, sa.size)
       THEN [list |-> list, header |-> NULL, panic |-> TRUE]
       ELSE [list |-> add_free_mem_region(list, ptr, sa.size), header |-> ptr,
             panic |-> FALSE]

\* the bytes [ptr, ptr + adjusted size) of a live block
BlockEnd(b) == b.ptr + size_align(b.layout).size

\* the header written at an address lies in one of the blocks
HeaderHits(header, blocks) ==
    /\ header # NULL
    /\ \E b \in blocks : header < BlockEnd(b) /\ b.ptr < header + ListNode_size

----------------------------------------------------------------------------
(* The heap on its own: the global allocator starts empty, init is called  *)
(* once, and alloc and dealloc (of live blocks, with their layout) are     *)
(* called in any order, before and after init.                             *)

Layouts == [size : LayoutSizes, align : LayoutAligns]

InitHeap ==
    /\ InitHeapVars
    /\ InitFrameVars
    /\ InitPagingVars
    /\ InitExecVars
    /\ InitAuxVars
    /\ panicked = FALSE

\* Allocator::init(HEAP_START, HEAP_SIZE), called once by memory::init
HeapInit ==
    /\ ~panicked
    /\ ~heap_init
    /\ heap_init' = TRUE
    /\ IF add_free_mem_region_panics(HEAP_START, HEAP_SIZE)
       THEN panicked' = TRUE /\ UNCHANGED free_list
       ELSE /\ free_list' = add_free_mem_region(free_list, HEAP_START, HEAP_SIZE)
            /\ UNCHANGED panicked
    /\ heapOp' = [NoHeapOp EXCEPT !.op = "init"]
    /\ UNCHANGED <<live, clobbered, favars, mem, cr3, range, stacks, lastOp, execvars, auxvars>>

HeapAlloc ==
    \E layout \in Layouts :
        LET r == alloc(free_list, layout)
        IN /\ ~panicked
           /\ free_list' = r.list
           /\ panicked' = r.panic
           /\ live' = IF r.ptr = NULL THEN live
                      ELSE live \cup {[ptr |-> r.ptr, layout |-> layout]}
           /\ clobbered' = (clobbered \/ HeaderHits(r.header, live'))
           /\ heapOp' = [op |-> "alloc", layout |-> layout, ptr |-> r.ptr,
                         prev |-> IF heapOp.op = "dealloc"
                                  THEN Some([ptr |-> heapOp.ptr, layout |-> heapOp.layout])
                                  ELSE None]
           /\ UNCHANGED <<heap_init, favars, mem, cr3, range, stacks, lastOp, execvars, auxvars>>

HeapDealloc ==
    \E b \in live :
        LET r == dealloc(free_list, b.ptr, b.layout)
        IN /\ ~panicked
           /\ free_list' = r.list
           /\ panicked' = r.panic
           /\ live' = live \ {b}
           /\ clobbered' = (clobbered \/ HeaderHits(r.header, live'))
           /\ heapOp' = [op |-> "dealloc", layout |-> b.layout, ptr |-> b.ptr,
                         prev |-> None]
           /\ UNCHANGED <<heap_init, favars, mem, cr3, range, stacks, lastOp, execvars, auxvars>>

NextHeap == HeapInit \/ HeapAlloc \/ HeapDealloc

SpecHeap == InitHeap /\ [][NextHeap]_vars

\* two ranges of addresses [a1, e1) and [a2, e2) have no byte in common
Disjoint(a1, e1, a2, e2) == e1 <= a2 \/ e2 <= a1

\* C6: every live block lies inside [HEAP_START, HEAP_START + HEAP_SIZE),
\* no live block overlaps another live block or a region of the free list,
\* and no list header was ever written into a live block.
C6_LiveBlocksIntact ==
    /\ \A b \in live :
          /\ HEAP_START <= b.ptr
          /\ BlockEnd(b) <= HEAP_START + HEAP_SIZE
          /\ \A c \in live \ {b} : Disjoint(b.ptr, BlockEnd(b), c.ptr, BlockEnd(c))
          /\ \A i \in DOMAIN free_list :
                Disjoint(b.ptr, BlockEnd(b), free_list[i].addr, end_addr(free_list[i]))
    /\ ~clobbered

\* a block is live after blocks around it were allocated and freed: two live
\* blocks and two regions on the free list
C6_Witness ==
    /\ Cardinality(live) >= 2
    /\ Len(free_list) >= 2
    /\ ~panicked

\* C7: an alloc(L) that directly follows dealloc(p, L) succeeds and returns p.
C7_ReuseAfterFree ==
    (heapOp.op = "alloc" /\ heapOp.prev # None /\ ~panicked
        /\ Unwrap(heapOp.prev).layout = heapOp.layout) =>
            (heapOp.ptr # NULL /\ heapOp.ptr = Unwrap(heapOp.prev).ptr)

\* alloc(L) has returned after dealloc(p, L), with another region on the list
\* that could have served the request as well
C7_Witness ==
    /\ heapOp.op = "alloc"
    /\ heapOp.prev # None
    /\ Unwrap(heapOp.prev).layout = heapOp.layout
    /\ \E i \in DOMAIN free_list :
          free_list[i].size >= size_align(heapOp.layout).size + ListNode_size
    /\ ~panicked

\* a region can serve a request of the adjusted size and alignment sa: the
\* aligned block ends inside the region and inside the address space, and
\* leaves nothing or room for a list node
RegionServes(region, sa) ==
    /\ align_up(region.addr, sa.align) + sa.size <= UsizeMax
    /\ align_up(region.addr, sa.align) + sa.size <= region.addr + region.size
    /\ region.addr + region.size - (align_up(region.addr, sa.align) + sa.size)
          \notin 1..(ListNode_size - 1)

C29_FirstFit ==
    [][(heapOp'.op = "alloc" /\ heapOp'.ptr # NULL /\ free_list' # free_list
            /\ ~panicked') =>
          \E i \in DOMAIN free_list :
              /\ RegionServes(free_list[i], size_align(heapOp'.layout))
              /\ \A j \in 1..(i - 1) :
                    ~RegionServes(free_list[j], size_align(heapOp'.layout))
              /\ heapOp'.ptr
                    = align_up(free_list[i].addr, size_align(heapOp'.layout).align)
              /\ \E k \in 0..1 :
                    /\ Len(free_list') = Len(free_list) - 1 + k
                    /\ \A j \in 1..(i - 1) : free_list'[j + k] = free_list[j]
                    /\ \A j \in (i + 1)..Len(free_list) :
                          free_list'[j + k - 1] = free_list[j]]_vars

\* alloc has returned a block, and the free list holds two regions that
\* cannot serve such a request ahead of one that can
C29_Witness ==
    /\ heapOp.op = "alloc"
    /\ heapOp.ptr # NULL
    /\ ~panicked
    /\ Len(free_list) >= 3
    /\ ~RegionServes(free_list[1], size_align(heapOp.layout))
    /\ ~RegionServes(free_list[2], size_align(heapOp.layout))
    /\ RegionServes(free_list[3], size_align(heapOp.layout))

\* C30: a dealloc call puts exactly one region, [p, p + adjusted size), at
\* the head of the free list and leaves the regions that were on the list
\* behind it as they were, in their order; the freed block is not merged
\* with a free region next to it.
C30_DeallocPushesOneRegion ==
    [][(heapOp'.op = "dealloc" /\ free_list' # free_list /\ ~panicked') =>
          free_list'
            = <<[addr |-> heapOp'.ptr, size |-> size_align(heapOp'.layout).size]>>
                 \o free_list]_vars

\* dealloc has returned, and the region of the freed block at the head of
\* the list ends where another free region of the list starts
C30_Witness ==
    /\ heapOp.op = "dealloc"
    /\ ~panicked
    /\ Len(free_list) >= 3
    /\ free_list[1].addr = heapOp.ptr
    /\ \E i \in 2..Len(free_list) : free_list[i].addr = end_addr(free_list[1])

\* C31: after init with a heap that starts at a multiple of the ListNode's
\* alignment, and any alloc and matching dealloc calls, every region of the
\* free list starts at a multiple of that alignment and is at least as large
\* as a ListNode, and no assertion of add_free_mem_region has failed, the
\* ones for the rest that alloc splits off included.
C31_RegionsHoldHeader ==
    /\ ~panicked
    /\ \A i \in DOMAIN free_list :
          /\ align_up(free_list[i].addr, ListNode_align) = free_list[i].addr
          /\ free_list[i].size >= ListNode_size

\* alloc has split a rest off a region for a request with an alignment
\* larger than the ListNode's, after a dealloc: the list holds the rest, a
\* freed block of the smallest size, and a region that starts at no multiple
\* of the request's alignment
C31_Witness ==
    /\ heapOp.op = "alloc"
    /\ heapOp.ptr # NULL
    /\ heapOp.layout.align > ListNode_align
    /\ Len(free_list) >= 2
    /\ free_list[1].addr = heapOp.ptr + size_align(heapOp.layout).size
    /\ \E i \in DOMAIN free_list : free_list[i].size = ListNode_size
    /\ \E i \in DOMAIN free_list : free_list[i].addr % heapOp.layout.align # 0
    /\ ~panicked

\* the sum of the sizes of the regions of a list
RECURSIVE FreeBytes(_)
FreeBytes(list) ==
    IF list = <<>> THEN 0 ELSE list[1].size + FreeBytes(Tail(list))

\* the sum of the adjusted sizes of a set of blocks
RECURSIVE LiveBytes(_)
LiveBytes(blocks) ==
    IF blocks = {} THEN 0
    ELSE LET b == CHOOSE x \in blocks : TRUE
         IN size_align(b.layout).size + LiveBytes(blocks \ {b})

\* the bytes between the start of the region of the list that holds ptr and
\* ptr
FrontPadding(list, ptr) ==
    LET i == CHOOSE k \in DOMAIN list : list[k].addr <= ptr /\ ptr < end_addr(list[k])
    IN ptr - list[i].addr

\* C37 as stated: after init, the sizes of the regions of the free list and
\* the adjusted sizes of the live blocks add up to the size of the heap.
C37_BytesConserved ==
    (heap_init /\ ~panicked) => FreeBytes(free_list) + LiveBytes(live) = HEAP_SIZE

\* C37, amended: init makes the sum the size of the heap, dealloc keeps it,
\* and an alloc that returns a block takes from it the bytes between the
\* start of the region it chose and the block's aligned start, which are on
\* neither side from then on; nothing is lost when the request's alignment
\* is at most the ListNode's.
C37_BytesConservedButPadding ==
    [][~panicked' =>
          /\ (heapOp'.op = "init" /\ ~heap_init)
                => FreeBytes(free_list') + LiveBytes(live') = HEAP_SIZE
          /\ (heapOp'.op = "dealloc" /\ live' # live)
                => FreeBytes(free_list') + LiveBytes(live')
                     = FreeBytes(free_list) + LiveBytes(live)
          /\ (heapOp'.op = "alloc" /\ heapOp'.ptr = NULL)
                => FreeBytes(free_list') + LiveBytes(live')
                     = FreeBytes(free_list) + LiveBytes(live)
          /\ (heapOp'.op = "alloc" /\ heapOp'.ptr # NULL /\ live' # live)
                => /\ FreeBytes(free_list') + LiveBytes(live')
                        = FreeBytes(free_list) + LiveBytes(live)
                            - FrontPadding(free_list, heapOp'.ptr)
                   /\ FrontPadding(free_list, heapOp'.ptr) < heapOp'.layout.align
                   /\ heapOp'.layout.align <= ListNode_align
                        => FrontPadding(free_list, heapOp'.ptr) = 0]_vars

\* alloc has returned a block that starts behind the start of the region it
\* was taken from: bytes of the heap are neither free nor live
C37_Witness ==
    /\ heap_init
    /\ ~panicked
    /\ heapOp.op = "alloc"
    /\ heapOp.ptr # NULL
    /\ live # {}
    /\ free_list # <<>>
    /\ FreeBytes(free_list) + LiveBytes(live) < HEAP_SIZE

----------------------------------------------------------------------------
(* task/executor.rs and task/keyboard.rs.  The kernel has one thread; a    *)
(* hardware interrupt can arrive between any two of its steps while the    *)
(* interrupt flag is set, and its handler runs to completion.              *)

\* The capacities of the two ArrayQueues.  The source creates both with
\* 100 slots; the queues of the model are smaller, so that a full queue is
\* reached.
TaskQueueCap == 2

ScancodeQueueCap == 2

\* the number of keyboard interrupts in a run, and the bytes read from the
\* keyboard port
MaxKeys == 3

ScancodeBytes == {10, 20}

\* ArrayQueue::push: fails when the queue is full
ArrayQueue_push(q, cap, x) ==
    IF Len(q) >= cap THEN [q |-> q, ok |-> FALSE]
    ELSE [q |-> Append(q, x), ok |-> TRUE]

\* an ArrayQueue::pop that takes the newest element
ArrayQueue_pop_newest(q) ==
    IF q = <<>> THEN [q |-> q, item |-> None]
    ELSE [q |-> SubSeq(q, 1, Len(q) - 1), item |-> Some(q[Len(q)])]

\* ArrayQueue::pop: the oldest element
ArrayQueue_pop(q) ==
    IF q = <<>> THEN [q |-> q, item |-> None]
    ELSE [q |-> Tail(q), item |-> Some(Head(q))]

\* The tasks handed to Executor::spawn before run(): the tasks of
\* kernel_main with the ids Task::new gives them, a task whose id is already
\* in the executor, and one task more than the ready queue has slots.
KernelTasks ==
    { <<[id |-> 1, fut |-> "keyboard"]>>,
      <<[id |-> 1, fut |-> "print_async"], [id |-> 2, fut |-> "keyboard"]>>,
      <<[id |-> 1, fut |-> "print_async"], [id |-> 1, fut |-> "keyboard"]>>,
      [i \in 1..(TaskQueueCap + 1) |->
          [id |-> i, fut |-> IF i = 1 THEN "keyboard" ELSE "print_async"]] }

\* a map with one more key
MapWith(f, k, v) == [x \in DOMAIN f \cup {k} |-> IF x = k THEN v ELSE f[x]]

\* a map without a key
MapWithout(f, k) == [x \in DOMAIN f \ {k} |-> f[x]]

\* a spawn that replaces the task of an id that is already there and goes on
spawn_overwrite(exec_tasks, queue, task) ==
    LET r == ArrayQueue_push(queue, TaskQueueCap, task.id)
    IN [tasks |-> MapWith(exec_tasks, task.id, task.fut),
        task_queue |-> r.q,
        panic |-> ~r.ok]

\* Executor::spawn: tasks.insert(task.id, task) must find no task of that
\* id, then task_queue.push(task_id) must succeed; the map, the queue and
\* whether one of the two panicked
spawn(exec_tasks, queue, task) ==
    LET r == ArrayQueue_push(queue, TaskQueueCap, task.id)
    IN IF task.id \in DOMAIN exec_tasks
       THEN [tasks |-> MapWith(exec_tasks, task.id, task.fut),
             task_queue |-> queue,
             panic |-> TRUE]
       ELSE [tasks |-> MapWith(exec_tasks, task.id, task.fut),
             task_queue |-> r.q,
             panic |-> ~r.ok]

\* a wake_task that leaves the queue alone when it already holds the id
wake_task_if_absent(queue, task_id) ==
    IF \E i \in DOMAIN queue : queue[i] = task_id
    THEN [queue |-> queue, panic |-> FALSE]
    ELSE [queue |-> Append(queue, task_id), panic |-> Len(queue) >= TaskQueueCap]

\* a wake_task that makes room in a full queue by dropping its oldest entry
wake_task_force_push(queue, task_id) ==
    IF Len(queue) >= TaskQueueCap
    THEN [queue |-> Append(Tail(queue), task_id), panic |-> FALSE]
    ELSE [queue |-> Append(queue, task_id), panic |-> FALSE]

\* TaskWaker::wake_task: push the id, panic if the queue is full
wake_task(queue, task_id) ==
    LET r == ArrayQueue_push(queue, TaskQueueCap, task_id)
    IN [queue |-> r.q, panic |-> ~r.ok]

\* the executor's cache after run_ready has looked for the task's waker
\* without keeping one
waker_cache_no_insert(cache, task_id) == cache

\* waker_cache.entry(task_id).or_insert_with(|| TaskWaker::new(..)): the ids
\* with a cached waker
waker_cache_insert(cache, task_id) == cache \cup {task_id}

\* Wake::wake(self: Arc<Self>) drops the Arc it was called on when it
\* returns; the TaskWaker goes back to the heap if the executor's cache
\* holds no other Arc of it
Arc_drop_frees(cache, task_id) == task_id \notin cache

\* WAKER.wake() on the record e of the state add_scancode touches: the
\* registered waker is taken out of the slot, invoked and dropped
AtomicWaker_wake(e) ==
    IF e.WAKER = None THEN e
    ELSE LET w == wake_task(e.task_queue, Unwrap(e.WAKER))
         IN [e EXCEPT !.WAKER = None,
                      !.isr_heap = @ \/ (~w.panic /\ Arc_drop_frees(e.waker_cache,
                                                                    Unwrap(e.WAKER))),
                      !.task_queue = w.queue,
                      !.woken = @ \cup {Unwrap(e.WAKER)},
                      !.wakes = @ + 1,
                      !.enqueued = IF w.panic THEN @
                                   ELSE Append(@, Unwrap(e.WAKER)),
                      !.panic = w.panic]

\* an add_scancode that invokes the waker also when the queue is full
add_scancode_wake_on_full(e, scancode) ==
    IF e.sc_queue = None THEN e
    ELSE LET r == ArrayQueue_push(Unwrap(e.sc_queue), ScancodeQueueCap, scancode)
         IN IF ~r.ok THEN AtomicWaker_wake(e)
            ELSE AtomicWaker_wake([e EXCEPT !.sc_queue = Some(r.q),
                                            !.pushed = Append(@, scancode)])

\* keyboard::add_scancode on the record e of the state it touches:
\* sc_queue, WAKER, task_queue, pushed, woken, wakes, enqueued, isr_heap and
\* panic, and the waker_cache it depends on
add_scancode(e, scancode) ==
    IF e.sc_queue = None THEN e
    ELSE LET r == ArrayQueue_push(Unwrap(e.sc_queue), ScancodeQueueCap, scancode)
         IN IF ~r.ok THEN e
            ELSE AtomicWaker_wake([e EXCEPT !.sc_queue = Some(r.q),
                                            !.pushed = Append(@, scancode)])

\* an interrupts::disable that leaves the interrupt flag as it is
interrupts_disable_noop(flag) == flag

\* interrupts::disable: the new interrupt flag
interrupts_disable(flag) == FALSE

\* the first queue.pop() of poll_next: the queue and Some(scancode) if the
\* poll is Ready
poll_next_first(q) ==
    LET r == ArrayQueue_pop(q)
    IN [queue |-> r.q, ret |-> r.item]

\* a second pop that takes the scancode off the queue and reports none
poll_next_second_pending(q) ==
    LET r == ArrayQueue_pop(q)
    IN [queue |-> r.q, ret |-> None]

\* a poll_next that does not look at the queue again after WAKER.register
poll_next_no_recheck(q) == [queue |-> q, ret |-> None]

\* the second queue.pop() of poll_next, after WAKER.register
poll_next_second(q) ==
    LET r == ArrayQueue_pop(q)
    IN [queue |-> r.q, ret |-> r.item]

----------------------------------------------------------------------------
(* The executor with the tasks of kernel_main, the keyboard interrupt and  *)
(* the timer interrupt.                                                    *)

InitExec ==
    /\ tasks = <<>>
    /\ task_queue = <<>>
    /\ waker_cache = {}
    /\ sc_queue = None
    /\ WAKER = None
    /\ intr = TRUE
    /\ pc = "boot"
    /\ cur_task = 0
    /\ kpc = [at |-> "start", sc |-> 0]
    /\ to_spawn \in KernelTasks
    /\ pushed = <<>>
    /\ delivered = <<>>
    /\ woken = {}
    /\ wakes = 0
    /\ keys = 0
    /\ enqueued = <<>>
    /\ dequeued = <<>>
    /\ isr_heap = FALSE
    /\ panicked = FALSE
    /\ InitFrameVars
    /\ InitPagingVars
    /\ InitHeapVars
    /\ InitAuxVars

OtherVars == <<favars, ptvars_nopanic, heapvars, auxvars>>

queue_hist == <<enqueued, dequeued>>

Panic ==
    /\ panicked' = TRUE
    /\ pc' = "panic"

\* Executor::spawn of the next task of kernel_main; run() after the last
Spawn ==
    /\ pc = "boot"
    /\ \E r \in {spawn(tasks, task_queue, Head(to_spawn))} :
          /\ to_spawn' = Tail(to_spawn)
          /\ tasks' = r.tasks
          /\ task_queue' = r.task_queue
          /\ enqueued' = IF r.panic THEN enqueued
                         ELSE Append(enqueued, Head(to_spawn).id)
          /\ IF r.panic THEN Panic
             ELSE /\ pc' = IF Tail(to_spawn) = <<>> THEN "pop" ELSE "boot"
                  /\ UNCHANGED panicked
    /\ UNCHANGED <<waker_cache, sc_queue, WAKER, intr, cur_task, kpc, pushed, delivered,
                   woken, wakes, keys, dequeued, isr_heap, OtherVars>>

\* run_ready: task_queue.pop(), the lookup of the task and of its waker
RunReadyPop ==
    /\ pc = "pop"
    /\ LET r == ArrayQueue_pop(task_queue)
       IN /\ task_queue' = r.q
          /\ dequeued' = IF r.item = None THEN dequeued
                         ELSE Append(dequeued, Unwrap(r.item))
          /\ IF r.item = None
             THEN /\ pc' = "disable"
                  /\ UNCHANGED <<waker_cache, cur_task, woken>>
             ELSE IF Unwrap(r.item) \notin DOMAIN tasks
             THEN UNCHANGED <<pc, waker_cache, cur_task, woken>>
             ELSE /\ pc' = "poll"
                  /\ waker_cache' = waker_cache_insert(waker_cache, Unwrap(r.item))
                  /\ cur_task' = Unwrap(r.item)
                  /\ woken' = woken \ {Unwrap(r.item)}
    /\ UNCHANGED <<tasks, sc_queue, WAKER, intr, kpc, to_spawn, pushed, delivered,
                   wakes, keys, panicked, enqueued, isr_heap, OtherVars>>

\* task.poll of print_async: Ready at once; the task and its waker are removed
PollPrintAsync ==
    /\ pc = "poll"
    /\ tasks[cur_task] = "print_async"
    /\ tasks' = MapWithout(tasks, cur_task)
    /\ waker_cache' = waker_cache \ {cur_task}
    /\ pc' = "pop"
    /\ UNCHANGED <<task_queue, sc_queue, WAKER, intr, cur_task, kpc, to_spawn, pushed,
                   delivered, woken, wakes, keys, panicked, queue_hist, isr_heap, OtherVars>>

\* the first poll of print_keypresses: ScancodeStream::new
KeyboardStart ==
    /\ pc = "poll"
    /\ tasks[cur_task] = "keyboard"
    /\ kpc.at = "start"
    /\ IF sc_queue # None
       THEN Panic /\ UNCHANGED <<sc_queue, kpc>>
       ELSE /\ sc_queue' = Some(<<>>)
            /\ kpc' = [at |-> "pop1", sc |-> 0]
            /\ UNCHANGED <<pc, panicked>>
    /\ UNCHANGED <<tasks, task_queue, waker_cache, WAKER, intr, cur_task, to_spawn,
                   pushed, delivered, woken, wakes, keys, queue_hist, isr_heap, OtherVars>>

\* poll_next: the first pop; on success the scancode is yielded and
\* print_keypresses asks for the next one
KeyboardPop1 ==
    /\ pc = "poll"
    /\ tasks[cur_task] = "keyboard"
    /\ kpc.at = "pop1"
    /\ LET r == poll_next_first(Unwrap(sc_queue))
       IN /\ sc_queue' = Some(r.queue)
          /\ IF r.ret = None
             THEN /\ kpc' = [at |-> "register", sc |-> 0]
                  /\ UNCHANGED delivered
             ELSE /\ delivered' = Append(delivered, Unwrap(r.ret))
                  /\ UNCHANGED kpc
    /\ UNCHANGED <<tasks, task_queue, waker_cache, WAKER, intr, pc, cur_task, to_spawn,
                   pushed, woken, wakes, keys, panicked, queue_hist, isr_heap, OtherVars>>

\* poll_next: WAKER.register(cx.waker())
KeyboardRegister ==
    /\ pc = "poll"
    /\ tasks[cur_task] = "keyboard"
    /\ kpc.at = "register"
    /\ WAKER' = Some(cur_task)
    /\ kpc' = [at |-> "pop2", sc |-> 0]
    /\ UNCHANGED <<tasks, task_queue, waker_cache, sc_queue, intr, pc, cur_task, to_spawn,
                   pushed, delivered, woken, wakes, keys, panicked, queue_hist, isr_heap, OtherVars>>

\* poll_next: the second pop; Pending if the queue is still empty
KeyboardPop2 ==
    /\ pc = "poll"
    /\ tasks[cur_task] = "keyboard"
    /\ kpc.at = "pop2"
    /\ LET r == poll_next_second(Unwrap(sc_queue))
       IN /\ sc_queue' = Some(r.queue)
          /\ IF r.ret = None
             THEN /\ kpc' = [at |-> "pop1", sc |-> 0]
                  /\ pc' = "pop"
             ELSE /\ kpc' = [at |-> "take", sc |-> Unwrap(r.ret)]
                  /\ UNCHANGED pc
    /\ UNCHANGED <<tasks, task_queue, waker_cache, WAKER, intr, cur_task, to_spawn,
                   pushed, delivered, woken, wakes, keys, panicked, queue_hist, isr_heap, OtherVars>>

\* poll_next: WAKER.take() and Ready(Some(scancode))
KeyboardTake ==
    /\ pc = "poll"
    /\ tasks[cur_task] = "keyboard"
    /\ kpc.at = "take"
    /\ WAKER' = None
    /\ delivered' = Append(delivered, kpc.sc)
    /\ kpc' = [at |-> "pop1", sc |-> 0]
    /\ UNCHANGED <<tasks, task_queue, waker_cache, sc_queue, intr, pc, cur_task, to_spawn,
                   pushed, woken, wakes, keys, panicked, queue_hist, isr_heap, OtherVars>>

\* sleep_on_idle: interrupts::disable()
SleepDisable ==
    /\ pc = "disable"
    /\ intr' = interrupts_disable(intr)
    /\ pc' = "check"
    /\ UNCHANGED <<tasks, task_queue, waker_cache, sc_queue, WAKER, cur_task, kpc,
                   to_spawn, pushed, delivered, woken, wakes, keys, panicked, queue_hist, isr_heap, OtherVars>>

\* sleep_on_idle: task_queue.is_empty()
SleepCheck ==
    /\ pc = "check"
    /\ pc' = IF task_queue = <<>> THEN "enable_and_hlt" ELSE "enable"
    /\ UNCHANGED <<tasks, task_queue, waker_cache, sc_queue, WAKER, intr, cur_task, kpc,
                   to_spawn, pushed, delivered, woken, wakes, keys, panicked, queue_hist, isr_heap, OtherVars>>

\* sleep_on_idle: enable_and_hlt(), sti and hlt with no interrupt between them
SleepHlt ==
    /\ pc = "enable_and_hlt"
    /\ intr' = TRUE
    /\ pc' = "halted"
    /\ UNCHANGED <<tasks, task_queue, waker_cache, sc_queue, WAKER, cur_task, kpc,
                   to_spawn, pushed, delivered, woken, wakes, keys, panicked, queue_hist, isr_heap, OtherVars>>

\* sleep_on_idle: interrupts::enable()
SleepEnable ==
    /\ pc = "enable"
    /\ intr' = TRUE
    /\ pc' = "pop"
    /\ UNCHANGED <<tasks, task_queue, waker_cache, sc_queue, WAKER, cur_task, kpc,
                   to_spawn, pushed, delivered, woken, wakes, keys, panicked, queue_hist, isr_heap, OtherVars>>

\* keyboard_interrupt_handler: the byte of port 0x60 goes to add_scancode;
\* a halted CPU goes on after the handler
KeyboardInterrupt ==
    \E scancode \in ScancodeBytes :
        LET e == add_scancode([sc_queue |-> sc_queue, WAKER |-> WAKER,
                               task_queue |-> task_queue, pushed |-> pushed,
                               woken |-> woken, wakes |-> wakes,
                               enqueued |-> enqueued, waker_cache |-> waker_cache,
                               isr_heap |-> isr_heap, panic |-> FALSE],
                              scancode)
        IN /\ intr
           /\ ~panicked
           /\ keys < MaxKeys
           /\ keys' = keys + 1
           /\ sc_queue' = e.sc_queue
           /\ WAKER' = e.WAKER
           /\ task_queue' = e.task_queue
           /\ pushed' = e.pushed
           /\ woken' = e.woken
           /\ wakes' = e.wakes
           /\ enqueued' = e.enqueued
           /\ isr_heap' = e.isr_heap
           /\ panicked' = e.panic
           /\ pc' = IF e.panic THEN "panic" ELSE IF pc = "halted" THEN "pop" ELSE pc
           /\ UNCHANGED <<tasks, waker_cache, intr, cur_task, kpc, to_spawn, delivered,
                          dequeued, OtherVars>>

\* timer_interrupt_handler: nothing but the end-of-interrupt; a halted CPU
\* goes on after the handler
TimerInterrupt ==
    /\ intr
    /\ ~panicked
    /\ pc = "halted"
    /\ pc' = "pop"
    /\ UNCHANGED <<tasks, task_queue, waker_cache, sc_queue, WAKER, intr, cur_task, kpc,
                   to_spawn, pushed, delivered, woken, wakes, keys, panicked, queue_hist, isr_heap, OtherVars>>

NextExec ==
    \/ Spawn
    \/ RunReadyPop
    \/ PollPrintAsync
    \/ KeyboardStart
    \/ KeyboardPop1
    \/ KeyboardRegister
    \/ KeyboardPop2
    \/ KeyboardTake
    \/ SleepDisable
    \/ SleepCheck
    \/ SleepHlt
    \/ SleepEnable
    \/ KeyboardInterrupt
    \/ TimerInterrupt

SpecExec == InitExec /\ [][NextExec]_vars

\* the steps of the kernel's one thread: unless it has halted or panicked
\* the CPU goes on with the next instruction
KernelStep ==
    \/ Spawn
    \/ RunReadyPop
    \/ PollPrintAsync
    \/ KeyboardStart
    \/ KeyboardPop1
    \/ KeyboardRegister
    \/ KeyboardPop2
    \/ KeyboardTake
    \/ SleepDisable
    \/ SleepCheck
    \/ SleepHlt
    \/ SleepEnable

\* The executor with a CPU that keeps running the kernel's thread.  No
\* interrupt is required to arrive.
SpecExecFair == InitExec /\ [][NextExec]_vars /\ WF_vars(KernelStep)

\* C4: when the CPU is halted in sleep_on_idle the ready queue is empty, and
\* every task whose waker was invoked has been polled since the invocation.
C4_NoLostWakeup ==
    pc = "halted" => (task_queue = <<>> /\ woken = {})

\* the CPU halts again after a waker was invoked and the task was polled
C4_Witness ==
    /\ pc = "halted"
    /\ wakes >= 1
    /\ Len(delivered) >= 1

\* C12: Executor::spawn panics when a task of the same id is already in the
\* executor and when the ready queue is full; in every other case the task
\* is in the task map afterwards, its id is the last entry of the ready
\* queue, and the entries before it and the other tasks are as they were.
C12_SpawnContract ==
    [][(pc = "boot" /\ to_spawn # <<>> /\ to_spawn' = Tail(to_spawn)) =>
          /\ panicked' <=> \/ Head(to_spawn).id \in DOMAIN tasks
                           \/ Len(task_queue) = TaskQueueCap
          /\ ~panicked' =>
                /\ DOMAIN tasks' = DOMAIN tasks \cup {Head(to_spawn).id}
                /\ tasks'[Head(to_spawn).id] = Head(to_spawn).fut
                /\ \A id \in DOMAIN tasks : tasks'[id] = tasks[id]
                /\ task_queue' = Append(task_queue, Head(to_spawn).id)]_vars

\* the ready queue was full when the last task was spawned: the task is in
\* the map, its id is not in the queue, and the kernel has panicked
C12_Witness ==
    /\ panicked
    /\ to_spawn = <<>>
    /\ Len(task_queue) = TaskQueueCap
    /\ Cardinality(DOMAIN tasks) = TaskQueueCap + 1
    /\ \A id \in DOMAIN tasks \ {TaskQueueCap + 1} :
          \E i \in DOMAIN task_queue : task_queue[i] = id

\* C13: the ids run_ready has popped, followed by the ids still in the
\* ready queue, are the ids that were pushed by spawn and by the wakers, in
\* the order of the pushes; and the task being polled is the one whose entry
\* was popped last.  So an entry pushed earlier is polled earlier.
C13_FifoOrder ==
    /\ enqueued = dequeued \o task_queue
    /\ pc = "poll" => /\ dequeued # <<>>
                      /\ cur_task = dequeued[Len(dequeued)]

\* two tasks were spawned and polled in the order of their spawns, and the
\* entry a waker pushed later is polled after them
C13_Witness ==
    /\ pc = "poll"
    /\ wakes >= 1
    /\ Len(dequeued) >= 3
    /\ dequeued[1] # dequeued[2]
    /\ cur_task = dequeued[3]

\* C14 as stated: a waker invoked again before its task is next polled
\* leaves the ready queue as the first invocation left it.
C14_WakeIdempotent ==
    [][(wakes' = wakes + 1 /\ WAKER # None /\ Unwrap(WAKER) \in woken)
          => task_queue' = task_queue]_vars

\* C14, amended: every invocation of a waker that does not panic appends the
\* task's id to the ready queue, also when an earlier invocation has not
\* been served yet, and every popped entry of a live task starts one poll
\* of that task.
C14_EachWakeEnqueues ==
    [][/\ (wakes' = wakes + 1 /\ ~panicked')
            => task_queue' = Append(task_queue, Unwrap(WAKER))
       /\ (Len(dequeued') = Len(dequeued) + 1 /\ Head(task_queue) \in DOMAIN tasks)
            => (pc' = "poll" /\ cur_task' = Head(task_queue))]_vars

\* the waker of one task was invoked twice before the task was polled again,
\* and the ready queue holds the id twice
C14_Witness ==
    /\ wakes >= 2
    /\ ~panicked
    /\ \E i, j \in DOMAIN task_queue :
          /\ i < j
          /\ task_queue[i] = task_queue[j]
          /\ task_queue[i] \in woken

\* C15: a keyboard interrupt that finds the scancode queue uninitialised
\* leaves it uninitialised and invokes no waker; one that finds it full leaves
\* its contents and the waker slot as they are and invokes no waker; every
\* other one appends its byte at the tail, and if a waker is registered it
\* is invoked once (its id is pushed onto the ready queue, or the push
\* panics) and the slot is empty afterwards.
C15_AddScancodeCases ==
    [][keys' = keys + 1 =>
          IF sc_queue = None
          THEN /\ sc_queue' = None
               /\ UNCHANGED <<pushed, wakes, WAKER, task_queue>>
          ELSE IF Len(Unwrap(sc_queue)) = ScancodeQueueCap
          THEN UNCHANGED <<sc_queue, pushed, wakes, WAKER, task_queue>>
          ELSE /\ \E byte \in ScancodeBytes :
                     /\ sc_queue' = Some(Append(Unwrap(sc_queue), byte))
                     /\ pushed' = Append(pushed, byte)
               /\ WAKER' = None
               /\ IF WAKER = None
                  THEN UNCHANGED <<wakes, task_queue>>
                  ELSE /\ wakes' = wakes + 1
                       /\ \/ task_queue' = Append(task_queue, Unwrap(WAKER))
                          \/ panicked' /\ task_queue' = task_queue]_vars

\* a byte was dropped, and a later byte was appended while the keyboard task
\* was between registering its waker and its second pop: the waker was
\* invoked and the slot is empty
C15_Witness ==
    /\ keys > Len(pushed)
    /\ kpc.at = "pop2"
    /\ sc_queue # None
    /\ Unwrap(sc_queue) # <<>>
    /\ WAKER = None
    /\ wakes >= 1
    /\ cur_task \in woken
    /\ ~panicked

C20_IsrNeverUsesHeap ==
    /\ ~isr_heap
    /\ WAKER # None => Unwrap(WAKER) \in waker_cache

\* the keyboard handler has invoked and dropped the task's waker, the
\* executor's cache still holds one, and the CPU went on from hlt
C20_Witness ==
    /\ wakes >= 1
    /\ WAKER = None
    /\ woken # {}
    /\ woken \subseteq waker_cache
    /\ pc = "pop"
    /\ ~isr_heap
    /\ ~panicked

\* the scancodes that were popped or are still queued, oldest first
InFlight ==
    (IF kpc.at = "take" THEN <<kpc.sc>> ELSE <<>>)
        \o (IF sc_queue = None THEN <<>> ELSE Unwrap(sc_queue))

\* C5: the scancodes poll_next has yielded, followed by those still on
\* their way, are the scancodes add_scancode has enqueued, in the same order.
C5_ScancodeOrder ==
    pushed = delivered \o InFlight

\* two different scancodes were yielded, one by each pop of poll_next
C5_Witness ==
    /\ Len(delivered) >= 2
    /\ delivered[1] # delivered[2]
    /\ wakes >= 1

\* the number of entries of a queue that are id
Count(q, id) == Cardinality({i \in DOMAIN q : q[i] = id})

\* C38 as stated: no id is in the ready queue twice, the queue holds no more
\* ids than there are tasks, and no push of a waker has failed.
C38_EachIdQueuedOnce ==
    /\ \A i, j \in DOMAIN task_queue : task_queue[i] = task_queue[j] => i = j
    /\ Len(task_queue) <= Cardinality(DOMAIN tasks)
    /\ panicked => wakes = 0

\* C38, amended: every entry of the ready queue comes from the spawn of its
\* task or from one invocation of the keyboard task's waker, so an id that
\* is not the keyboard task's was pushed at most once and the keyboard
\* task's at most once more than its waker was invoked; the keyboard task's
\* id can be in the queue several times, and an invocation of the waker
\* panics exactly when it finds the queue full.
C38_QueuedOncePerWake ==
    /\ [](\A i \in DOMAIN enqueued :
             Count(enqueued, enqueued[i])
                <= IF enqueued[i] \in DOMAIN tasks /\ tasks[enqueued[i]] = "keyboard"
                   THEN 1 + wakes ELSE 1)
    /\ [](Len(task_queue) <= TaskQueueCap)
    /\ [][wakes' = wakes + 1 =>
             /\ panicked' <=> Len(task_queue) = TaskQueueCap
             /\ panicked' => task_queue' = task_queue]_vars

\* the keyboard task's waker found the ready queue full of the task's id
\* and the kernel has panicked
C38_Witness ==
    /\ panicked
    /\ wakes = TaskQueueCap + 1
    /\ Len(task_queue) = TaskQueueCap
    /\ DOMAIN tasks = {1}
    /\ \A i \in DOMAIN task_queue : task_queue[i] = 1

----------------------------------------------------------------------------
(* Executor::run with tasks of any kind: a poll may hand a clone of its     *)
(* waker to an interrupt handler (as poll_next does with WAKER.register),  *)
(* may invoke the waker itself, and returns Ready or Pending.  The handler  *)
(* invokes the waker it holds, also after the task has finished.           *)

\* the tasks handed to spawn before run()
OtherTasks ==
    { [i \in 1..n |-> [id |-> i, fut |-> "other"]] : n \in 1..TaskQueueCap }

\* a Ready arm that leaves the task's waker in the cache
run_ready_Ready_keep_waker(exec_tasks, cache, task_id) ==
    [tasks |-> MapWithout(exec_tasks, task_id), waker_cache |-> cache]

\* the Ready arm of run_ready: tasks.remove and waker_cache.remove
run_ready_Ready(exec_tasks, cache, task_id) ==
    [tasks |-> MapWithout(exec_tasks, task_id), waker_cache |-> cache \ {task_id}]

InitRunReady ==
    /\ tasks = <<>>
    /\ task_queue = <<>>
    /\ waker_cache = {}
    /\ sc_queue = None
    /\ WAKER = None
    /\ intr = TRUE
    /\ pc = "boot"
    /\ cur_task = 0
    /\ kpc = [at |-> "start", sc |-> 0]
    /\ to_spawn \in OtherTasks
    /\ pushed = <<>>
    /\ delivered = <<>>
    /\ woken = {}
    /\ wakes = 0
    /\ keys = 0
    /\ enqueued = <<>>
    /\ dequeued = <<>>
    /\ isr_heap = FALSE
    /\ panicked = FALSE
    /\ InitFrameVars
    /\ InitPagingVars
    /\ InitHeapVars
    /\ InitAuxVars

\* task.poll(&mut context) of a task: the waker may go to the handler's
\* slot, the task may invoke it, and the poll returns Ready or Pending
TaskPoll ==
    /\ pc = "poll"
    /\ tasks[cur_task] = "other"
    /\ \E register \in BOOLEAN, wake \in BOOLEAN, ready \in BOOLEAN :
          /\ wake => wakes < MaxKeys
          /\ WAKER' = IF register THEN Some(cur_task) ELSE WAKER
          /\ wakes' = IF wake THEN wakes + 1 ELSE wakes
          /\ \E w \in {IF wake THEN wake_task(task_queue, cur_task)
                       ELSE [queue |-> task_queue, panic |-> FALSE]} :
                /\ task_queue' = w.queue
                /\ enqueued' = IF wake /\ ~w.panic THEN Append(enqueued, cur_task)
                               ELSE enqueued
                /\ IF w.panic THEN Panic
                   ELSE /\ pc' = IF ready THEN "ready" ELSE "pending"
                        /\ UNCHANGED panicked
    /\ UNCHANGED <<tasks, waker_cache, sc_queue, intr, cur_task, kpc, to_spawn, pushed,
                   delivered, woken, keys, dequeued, isr_heap, OtherVars>>

\* the arm Poll::Ready(()) of run_ready
RunReadyReady ==
    /\ pc = "ready"
    /\ \E r \in {run_ready_Ready(tasks, waker_cache, cur_task)} :
          /\ tasks' = r.tasks
          /\ waker_cache' = r.waker_cache
    /\ pc' = "pop"
    /\ UNCHANGED <<task_queue, sc_queue, WAKER, intr, cur_task, kpc, to_spawn, pushed,
                   delivered, woken, wakes, keys, panicked, queue_hist, isr_heap, OtherVars>>

\* the arm Poll::Pending of run_ready
RunReadyPending ==
    /\ pc = "pending"
    /\ pc' = "pop"
    /\ UNCHANGED <<tasks, task_queue, waker_cache, sc_queue, WAKER, intr, cur_task, kpc,
                   to_spawn, pushed, delivered, woken, wakes, keys, panicked, queue_hist,
                   isr_heap, OtherVars>>

\* an interrupt whose handler invokes the waker in its slot; a halted CPU
\* goes on after the handler
WakerInterrupt ==
    /\ intr
    /\ ~panicked
    /\ WAKER # None
    /\ wakes < MaxKeys
    /\ \E e \in {AtomicWaker_wake([WAKER |-> WAKER, task_queue |-> task_queue,
                                   woken |-> woken, wakes |-> wakes,
                                   enqueued |-> enqueued, waker_cache |-> waker_cache,
                                   isr_heap |-> isr_heap, panic |-> FALSE])} :
          /\ WAKER' = e.WAKER
          /\ task_queue' = e.task_queue
          /\ woken' = e.woken
          /\ wakes' = e.wakes
          /\ enqueued' = e.enqueued
          /\ isr_heap' = e.isr_heap
          /\ panicked' = e.panic
          /\ pc' = IF e.panic THEN "panic" ELSE IF pc = "halted" THEN "pop" ELSE pc
    /\ UNCHANGED <<tasks, waker_cache, sc_queue, intr, cur_task, kpc, to_spawn, pushed,
                   delivered, keys, dequeued, OtherVars>>

NextRunReady ==
    \/ Spawn
    \/ RunReadyPop
    \/ TaskPoll
    \/ RunReadyReady
    \/ RunReadyPending
    \/ SleepDisable
    \/ SleepCheck
    \/ SleepHlt
    \/ SleepEnable
    \/ WakerInterrupt
    \/ TimerInterrupt

SpecRunReady == InitRunReady /\ [][NextRunReady]_vars

\* C32: the Ready arm takes the task and its cached waker out of the
\* executor and leaves the ready queue alone; the Pending arm changes none of
\* the three; run_ready polls only tasks of the map, and an entry of the
\* queue whose task is gone is popped with nothing else done; no task comes
\* back into the map, so a finished task is not polled again; and the waker
\* cache holds wakers of tasks of the map only.
C32_ReadyRemovesTask ==
    /\ [](waker_cache \subseteq DOMAIN tasks)
    /\ [](pc \in {"poll", "ready", "pending"} => cur_task \in DOMAIN tasks)
    /\ [][/\ (pc = "ready" /\ pc' = "pop")
                => /\ DOMAIN tasks' = DOMAIN tasks \ {cur_task}
                   /\ waker_cache' = waker_cache \ {cur_task}
                   /\ task_queue' = task_queue
          /\ (pc = "pending" /\ pc' = "pop")
                => UNCHANGED <<tasks, waker_cache, task_queue>>
          /\ (pc = "pop" /\ task_queue # <<>> /\ Head(task_queue) \notin DOMAIN tasks
                /\ Len(dequeued') = Len(dequeued) + 1)
                => /\ pc' = "pop"
                   /\ task_queue' = Tail(task_queue)
                   /\ UNCHANGED <<tasks, waker_cache>>
          /\ pc # "boot" => DOMAIN tasks' \subseteq DOMAIN tasks]_vars

\* a task has returned Ready while two copies of its id were in the ready
\* queue; run_ready has removed it and its waker, has popped and skipped the
\* two copies, and is polling another task
C32_Witness ==
    /\ pc = "poll"
    /\ cur_task = 2
    /\ DOMAIN tasks = {2}
    /\ waker_cache = {2}
    /\ dequeued = <<1, 2, 1, 1, 2>>
    /\ ~panicked

----------------------------------------------------------------------------
(* memory/paging/mod.rs: remap_kernel, with the temporary page and its     *)
(* TinyAllocator.  r is the pair of the machine m and the TinyAllocator    *)
(* tiny; the mapper code runs on the machine with the allocator it is      *)
(* passed.                                                                 *)

\* Page { number: 0xcafebabe }
TmpPage == <<25, 50248382>>

\* Frame::containing_address(0xb8000)
VgaFrame == 184

\* the machine takes the TinyAllocator as its allocator, and gives it back
WithTiny(r) == [r.m EXCEPT !.fa = r.tiny]

GiveBack(m, allocator) == [m |-> [m EXCEPT !.fa = allocator], tiny |-> m.fa]

\* TinyAllocator::new: three allocate_frame calls
tiny_take(r) ==
    [m |-> kalloc_frame(r.m).m,
     tiny |-> [r.tiny EXCEPT !.slots = Append(@, kalloc_frame(r.m).ret)]]

TemporaryPage_new(m) ==
    tiny_take(tiny_take(tiny_take([m |-> m, tiny |-> [slots |-> <<>>, full |-> FALSE]])))

\* TemporaryPage::map_table_frame: the page must not be mapped; map_to with
\* the TinyAllocator
TemporaryPage_map_table_frame(r, frame) ==
    IF r.m.panic THEN r
    ELSE IF translate_page(r.m, TmpPage) # None THEN [r EXCEPT !.m.panic = TRUE]
    ELSE GiveBack(map_to(WithTiny(r), TmpPage, frame, {"WRITABLE"}), r.m.fa)

\* TemporaryPage::unmap: unmap with the TinyAllocator
TemporaryPage_unmap(r) ==
    IF r.m.panic THEN r
    ELSE GiveBack(unmap(WithTiny(r), TmpPage), r.m.fa)

\* an InactivePageTable::new that does not zero the table
InactivePageTable_new_no_zero(r, frame) ==
    TemporaryPage_unmap(
        [TemporaryPage_map_table_frame(r, frame) EXCEPT !.m =
            IF @.panic THEN @
            ELSE Table_index_set(@, TmpPage, 511,
                                 Entry_set(frame, {"PRESENT", "WRITABLE"}))])

\* the block of InactivePageTable::new: zero the table behind the temporary
\* page and set its entry 511 to its own frame
new_table_setup(r, frame) ==
    [r EXCEPT !.m = IF @.panic THEN @
                    ELSE Table_index_set(Table_zero(@, TmpPage), TmpPage, 511,
                                         Entry_set(frame, {"PRESENT", "WRITABLE"}))]

\* InactivePageTable::new
InactivePageTable_new(r, frame) ==
    TemporaryPage_unmap(new_table_setup(TemporaryPage_map_table_frame(r, frame), frame))

\* EntryFlags::from_elf_section
from_elf_section(section) ==
    (IF section.allocated THEN {"PRESENT"} ELSE {})
    \cup (IF section.writable THEN {"WRITABLE"} ELSE {})
    \cup (IF section.executable THEN {} ELSE {"NO_EXECUTE"})

\* an end frame that is the start frame of the section
section_end_frame_is_start(section) == Frame_containing_address(section.addr)

\* Frame::containing_address(section.end_address() - 1)
section_end_frame(section) ==
    Frame_containing_address(section.addr + section.size - 1)

\* for frame in Frame::range_inclusive(frame, end) { id_map(frame, flags) }
RECURSIVE id_map_range(_, _, _, _)
id_map_range(m, frame, end, flags) ==
    IF m.panic \/ frame > end THEN m
    ELSE id_map_range(id_map(m, frame, flags), frame + 1, end, flags)

\* the body of the loop over the ELF sections
map_section(m, section) ==
    IF ~section.allocated THEN m
    ELSE IF section.addr % PAGE_SIZE # 0 THEN [m EXCEPT !.panic = TRUE]
    ELSE id_map_range(m, Frame_containing_address(section.addr),
                      section_end_frame(section), from_elf_section(section))

RECURSIVE map_sections(_, _)
map_sections(m, sections) ==
    IF m.panic \/ sections = <<>> THEN m
    ELSE map_sections(map_section(m, Head(sections)), Tail(sections))

\* the VGA frame, after the sections
map_vga(m) ==
    IF m.panic THEN m ELSE id_map(m, VgaFrame, {"WRITABLE"})

\* the closure remap_kernel passes to with
remap_closure(m, mbi) ==
    id_map_range(map_vga(map_sections(m, mbi.sections)),
                 Frame_containing_address(mbi.start),
                 Frame_containing_address(mbi.end - 1), {"PRESENT"})

\* with, up to the call of f, given self.p4()[511].pointed_frame(): the
\* temporary page is mapped to the active P4 frame and the recursive entry
\* is overwritten
with_enter(r, p4_frame, backup) ==
    IF backup = None THEN [r EXCEPT !.m.panic = TRUE]
    ELSE [TemporaryPage_map_table_frame(r, Unwrap(backup)) EXCEPT !.m =
             IF @.panic THEN @
             ELSE Table_index_set(@, P4, 511,
                                  Entry_set(p4_frame, {"PRESENT", "WRITABLE"}))]

\* with: f(&mut self.mapper), f the closure of remap_kernel
with_closure(r, mbi) ==
    [r EXCEPT !.m = IF @.panic THEN @ ELSE remap_closure(@, mbi)]

\* a with that restores the recursive entry and leaves the temporary page
\* mapped
with_restore_keep_tmp(r, backup) ==
    [r EXCEPT !.m =
        IF @.panic THEN @
        ELSE Table_index_set(@, TmpPage, 511,
                             Entry_set(backup, {"PRESENT", "WRITABLE"}))]

\* with, after f has returned: the recursive entry is restored through the
\* temporary page, and the temporary page is unmapped
with_restore(r, backup) ==
    TemporaryPage_unmap(
        [r EXCEPT !.m =
            IF @.panic THEN @
            ELSE Table_index_set(@, TmpPage, 511,
                                 Entry_set(backup, {"PRESENT", "WRITABLE"}))])

\* with, from the overwrite of the recursive entry on: the closure, the
\* restore through the temporary page, the unmap of the temporary page
with_table(r, p4_frame, backup, mbi) ==
    with_restore(with_closure(with_enter(r, p4_frame, Some(backup)), mbi), backup)

\* with, given self.p4()[511].pointed_frame()
with_backup(r, p4_frame, backup, mbi) ==
    IF backup = None THEN [r EXCEPT !.m.panic = TRUE]
    ELSE with_table(r, p4_frame, Unwrap(backup), mbi)

\* ActivePageTable::with
ActivePageTable_with(r, p4_frame, mbi) ==
    with_backup(r, p4_frame, Entry_pointed_frame(Table_index(r.m, P4, 511)), mbi)

\* ActivePageTable::switch: the machine afterwards and the old table
ActivePageTable_switch(m, p4_frame) ==
    IF Entry_pointed_frame(Table_index(m, P4, 511)) = None
    THEN [m |-> [m EXCEPT !.panic = TRUE], old_table |-> 0]
    ELSE [m |-> [m EXCEPT !.cr3 = p4_frame],
          old_table |-> Unwrap(Entry_pointed_frame(Table_index(m, P4, 511)))]

\* the page after the one of the old P4 frame
old_p4_page_next(p4_frame) ==
    Page_containing_address(Frame_start_address(p4_frame + 1))

\* Page::containing_address(old_table.p4_frame.start_address())
old_p4_page(p4_frame) ==
    Page_containing_address(Frame_start_address(p4_frame))

\* remap_kernel up to the call of with: the temporary page, the frame of the
\* new table, InactivePageTable::new
remap_new_table(r) ==
    IF kalloc_frame(r.m).ret = None
    THEN [r |-> [r EXCEPT !.m.panic = TRUE], p4_frame |-> 0]
    ELSE [r |-> InactivePageTable_new([r EXCEPT !.m = kalloc_frame(r.m).m],
                                      Unwrap(kalloc_frame(r.m).ret)),
          p4_frame |-> Unwrap(kalloc_frame(r.m).ret)]

----------------------------------------------------------------------------
(* remap_kernel on the page tables the boot code leaves, as memory::init   *)
(* calls it: the kernel image is a text section in frame 0 and a writable  *)
(* section with the boot page tables in the frames after it, the boot      *)
(* information follows the image, and memory is one area.                  *)

\* the frames of the writable section, and the largest number of frames of
\* memory
BssFrames == 5

RemapFrames == 16

\* the sections of the image: the text section ends at the end of its frame
\* or before it
ImageSections(text_size) ==
    << [addr |-> 0, size |-> text_size, allocated |-> TRUE, writable |-> FALSE,
        executable |-> TRUE],
       [addr |-> PAGE_SIZE, size |-> BssFrames * PAGE_SIZE, allocated |-> TRUE,
        writable |-> TRUE, executable |-> FALSE] >>

\* sections that may come with them: one that is not loaded, one that is
\* loaded at an address that is not a multiple of the page size
ExtraSections ==
    { <<>>,
      << [addr |-> 0, size |-> 100, allocated |-> FALSE, writable |-> FALSE,
          executable |-> FALSE] >>,
      << [addr |-> (BssFrames + 1) * PAGE_SIZE + 8, size |-> 100, allocated |-> TRUE,
          writable |-> FALSE, executable |-> FALSE] >> }

\* the boot information: its ELF sections and where it lies itself
BootInformations ==
    { [sections |-> IF first THEN extra \o ImageSections(text_size)
                    ELSE ImageSections(text_size) \o extra,
       start |-> (BssFrames + 2) * PAGE_SIZE,
       end |-> (BssFrames + 2) * PAGE_SIZE + mbi_size] :
        text_size \in {PAGE_SIZE - 96, PAGE_SIZE}, extra \in ExtraSections,
        first \in BOOLEAN, mbi_size \in {100, PAGE_SIZE, PAGE_SIZE + 100} }

\* the loaded sections
Allocated(sections) == { i \in DOMAIN sections : sections[i].allocated }

\* memory::init: the frame allocator from the boot information
init_frame_allocator(mbi, frames) ==
    AreaFrameAllocator_new(
        CHOOSE a \in { mbi.sections[i].addr : i \in Allocated(mbi.sections) } :
            \A i \in Allocated(mbi.sections) : a <= mbi.sections[i].addr,
        CHOOSE e \in { mbi.sections[i].addr + mbi.sections[i].size :
                         i \in Allocated(mbi.sections) } :
            \A i \in Allocated(mbi.sections) :
                mbi.sections[i].addr + mbi.sections[i].size <= e,
        mbi.start, mbi.end,
        <<[start |-> 0, size |-> frames * PAGE_SIZE]>>)

\* what the frames behind the image hold at kernel entry: nothing, or what
\* was written to them before the boot, which reads as table entries
StaleTable ==
    (0 :> Entry_set(BootP3Frame, {"PRESENT", "WRITABLE"}))
    @@ (5 :> Entry_set(BssFrames + 2, {"PRESENT"}))
    @@ (511 :> Entry_set(0, {"PRESENT", "WRITABLE", "HUGE_PAGE"}))

StaleMems ==
    { <<>>, [f \in (BssFrames + 1)..RemapFrames |-> StaleTable] }

InitRemap ==
    /\ \E mbi \in BootInformations, frames \in (RemapFrames - 8)..RemapFrames :
          /\ remap = [pc |-> "start", mbi |-> mbi, tiny |-> <<>>, p4_frame |-> 0,
                      old_table |-> 0, backup |-> 0]
          /\ fa = init_frame_allocator(mbi, frames)
    /\ \E stale \in StaleMems : mem = BootMem @@ stale
    /\ cr3 = BootP4Frame
    /\ fa_ret = None
    /\ fa_hist = <<>>
    /\ fa_freed = {}
    /\ range = [start |-> Num(1), end |-> Num(0)]
    /\ stacks = <<>>
    /\ panicked = FALSE
    /\ lastOp = NoOp
    /\ InitHeapVars
    /\ InitExecVars
    /\ InitConVars
    /\ InitCallVars
    /\ WRITER = NoWriter
    /\ cpu = NoCpu

RemapOther ==
    <<fa_ret, fa_hist, fa_freed, range, stacks, lastOp, heapvars, execvars, convars,
      call_arg, call_ret, WRITER, cpu>>

\* the machine and the locals of remap_kernel after a step that ends at next
RemapStep(m, next, tiny, p4_frame, old_table) ==
    /\ mem' = m.mem
    /\ cr3' = m.cr3
    /\ fa' = m.fa
    /\ panicked' = m.panic
    /\ remap' = [remap EXCEPT !.pc = IF m.panic THEN @ ELSE next, !.tiny = tiny,
                              !.p4_frame = p4_frame, !.old_table = old_table]
    /\ UNCHANGED RemapOther

\* TemporaryPage::new, allocate_frame().expect and InactivePageTable::new
RemapNewTable ==
    /\ remap.pc = "start"
    /\ ~panicked
    /\ \E n \in {remap_new_table(TemporaryPage_new(Machine))} :
          RemapStep(n.r.m, "with", n.r.tiny, n.p4_frame, 0)

\* active_table.with(new_table, tmp_page, closure)
RemapWith ==
    /\ remap.pc = "with"
    /\ ~panicked
    /\ \E r \in {ActivePageTable_with([m |-> Machine, tiny |-> remap.tiny],
                                      remap.p4_frame, remap.mbi)} :
          RemapStep(r.m, "switch", r.tiny, remap.p4_frame, 0)

\* active_table.switch(new_table)
RemapSwitch ==
    /\ remap.pc = "switch"
    /\ ~panicked
    /\ \E sw \in {ActivePageTable_switch(Machine, remap.p4_frame)} :
          RemapStep(sw.m, "guard", remap.tiny, remap.p4_frame, sw.old_table)

\* active_table.unmap(old_p4, allocator)
RemapGuard ==
    /\ remap.pc = "guard"
    /\ ~panicked
    /\ RemapStep(unmap(Machine, old_p4_page(remap.old_table)), "done", remap.tiny,
                 remap.p4_frame, remap.old_table)

NextRemap == RemapNewTable \/ RemapWith \/ RemapSwitch \/ RemapGuard

SpecRemap == InitRemap /\ [][NextRemap]_vars

\* the machine and the locals of with after a step that ends at next
WithStep(r, next, backup) ==
    /\ mem' = r.m.mem
    /\ cr3' = r.m.cr3
    /\ fa' = r.m.fa
    /\ panicked' = r.m.panic
    /\ remap' = [remap EXCEPT !.pc = IF r.m.panic THEN @ ELSE next, !.tiny = r.tiny,
                              !.backup = backup]
    /\ UNCHANGED RemapOther

\* with, up to the call of f
WithEnter ==
    /\ remap.pc = "with"
    /\ ~panicked
    /\ \E backup \in {Entry_pointed_frame(Table_index(Machine, P4, 511))} :
          WithStep(with_enter([m |-> Machine, tiny |-> remap.tiny], remap.p4_frame,
                              backup),
                   "closure", IF backup = None THEN 0 ELSE Unwrap(backup))

\* with: f runs
WithClosure ==
    /\ remap.pc = "closure"
    /\ ~panicked
    /\ WithStep(with_closure([m |-> Machine, tiny |-> remap.tiny], remap.mbi),
                "restore", remap.backup)

\* with, after f has returned
WithRestore ==
    /\ remap.pc = "restore"
    /\ ~panicked
    /\ WithStep(with_restore([m |-> Machine, tiny |-> remap.tiny], remap.backup),
                "switch", remap.backup)

\* remap_kernel with the steps of with
NextWith ==
    \/ RemapNewTable
    \/ WithEnter
    \/ WithClosure
    \/ WithRestore
    \/ RemapSwitch
    \/ RemapGuard

SpecWith == InitRemap /\ [][NextWith]_vars

\* the frames of a section
SectionFrames(section) ==
    Frame_containing_address(section.addr)
        ..Frame_containing_address(section.addr + section.size - 1)

\* the frames of the loaded sections of the image
KernelFrames ==
    UNION { SectionFrames(remap.mbi.sections[i]) : i \in Allocated(remap.mbi.sections) }

\* the frames of the boot information
MbiFrames ==
    Frame_containing_address(remap.mbi.start)
        ..Frame_containing_address(remap.mbi.end - 1)

\* the machine as it is with the P4 frame f in CR3
MachineWith(f) == [Machine EXCEPT !.cr3 = f]

\* the P1 entry of a page in the hierarchy of the machine
LeafEntry(m, page) ==
    IF p1_table(m, page) = None THEN UnusedEntry
    ELSE Table_index(m, Unwrap(p1_table(m, page)), p1_index(page))

\* C25: when remap_kernel loads CR3 with the new P4 frame, the hierarchy of
\* that frame identity-maps every frame of every loaded ELF section, the VGA
\* frame, writable, and every frame of the boot information; and with has
\* returned: entry 511 of the active P4 table points at the active P4 frame
\* again and the temporary page is unmapped.
C25_SwitchAfterIdMap ==
    [][cr3' # cr3 =>
          /\ remap.pc = "switch"
          /\ cr3' = remap.p4_frame
          /\ \A f \in KernelFrames \cup MbiFrames \cup {VgaFrame} :
                HwWalk(MachineWith(cr3'), Num(f)) = Some(f)
          /\ "WRITABLE" \in Entry_flags(LeafEntry(MachineWith(cr3'), Num(VgaFrame)))
          /\ Entry_pointed_frame(Table_index(Machine, P4, 511)) = Some(cr3)
          /\ HwWalk(Machine, TmpPage) = None]_vars

\* CR3 holds the new P4 frame; the image had a section that is not loaded
\* and the boot information lies in two frames
C25_Witness ==
    /\ remap.pc = "guard"
    /\ cr3 = remap.p4_frame
    /\ cr3 # BootP4Frame
    /\ Cardinality(MbiFrames) = 2
    /\ Len(remap.mbi.sections) = 3

\* C26: after remap_kernel has returned, translate of the start address of
\* the old P4 frame is None, and the identity page of every other frame of
\* the loaded sections of the image is mapped to its frame.
C26_GuardPage ==
    (remap.pc = "done" /\ ~panicked) =>
        /\ translate(Machine, Frame_start_address(remap.old_table)) = None
        /\ \A f \in KernelFrames \ {remap.old_table} :
              translate(Machine, Frame_start_address(f)) = Some(Frame_start_address(f))

\* remap_kernel has returned, the old P4 frame is the boot P4 frame, and it
\* lies between other frames of the image
C26_Witness ==
    /\ remap.pc = "done"
    /\ ~panicked
    /\ remap.old_table = BootP4Frame
    /\ {BootP4Frame - 1, BootP4Frame + 1} \subseteq KernelFrames

----------------------------------------------------------------------------
(* tests/stack_overflow.rs: the test's entry point calls memory::init and  *)
(* init_test_idt and then a function that calls itself without end.  The   *)
(* boot code's stack is the top of the image's writable section, above the *)
(* boot page tables; the CPU delivers exceptions as the IDT and the TSS    *)
(* the test loads tell it to.                                              *)

\* Page::containing_address(HEAP_START), HEAP_START = 0x4444_4444_0000
HeapStartPage == <<136, 71582784>>

\* the pages of HEAP_SIZE = 100 KiB
HeapPages == 25

\* stack_alloc_end = stack_alloc_start + 100
StackRangePages == 100

\* TEST_DOUBLE_FAULT_IST_INDEX
TEST_DOUBLE_FAULT_IST_INDEX == 0

\* the bytes the CPU pushes when it delivers an exception with an error
\* code: the InterruptStackFrame's five values and the error code
ExceptionFrameBytes == 48

\* the largest number of frames of memory, and the bytes of stack one call
\* of stack_overflow takes
OverflowFrames == 46

CallFrameBytes == 2048

\* the top of the boot code's stack: the end of the writable section
KernelStackTop == [num |-> Num(1 + BssFrames), off |-> 0]

\* the rest of memory::init after remap_kernel: the heap's pages are mapped
\* writable
memory_init_heap(m) ==
    map_range(m, [start |-> HeapStartPage,
                  end |-> NumAdd(HeapStartPage, HeapPages - 1)], {"WRITABLE"})

\* heap_end + 1 ..= heap_end + 1 + 100, the range of StackAllocator::new
stack_alloc_range ==
    [start |-> NumAdd(HeapStartPage, HeapPages),
     end |-> NumAdd(HeapStartPage, HeapPages + StackRangePages)]

\* the CPU finds a frame for the page of addr by its walk from CR3
CpuMapped(m, addr) == HwWalk(m, Page_containing_address(addr)) # None

\* the frame the CPU's walk finds for the page of addr
CpuFrame(m, addr) == Unwrap(HwWalk(m, Page_containing_address(addr)))

\* a double-fault entry without set_stack_index: the CPU stays on the stack
\* it is on
DoubleFaultStack_current(c) == c.rsp

\* the stack the CPU delivers the double fault on: TEST_IDT's double_fault
\* entry has set_stack_index(TEST_DOUBLE_FAULT_IST_INDEX), and the CPU loads
\* the stack pointer from that entry of the TSS's interrupt_stack_table
DoubleFaultStack(c) == c.ist[TEST_DOUBLE_FAULT_IST_INDEX + 1]

InitOverflow ==
    /\ \E mbi \in BootInformations, frames \in (OverflowFrames - 5)..OverflowFrames :
          /\ remap = [pc |-> "start", mbi |-> mbi, tiny |-> <<>>, p4_frame |-> 0,
                      old_table |-> 0]
          /\ fa = init_frame_allocator(mbi, frames)
    /\ cpu = [pc |-> "memory_init", rsp |-> KernelStackTop, ist |-> <<>>,
              written |-> {}, cr2 |-> None, exit_code |-> "none"]
    /\ mem = BootMem
    /\ cr3 = BootP4Frame
    /\ fa_ret = None
    /\ fa_hist = <<>>
    /\ fa_freed = {}
    /\ range = [start |-> Num(1), end |-> Num(0)]
    /\ stacks = <<>>
    /\ panicked = FALSE
    /\ lastOp = NoOp
    /\ InitHeapVars
    /\ InitExecVars
    /\ InitConVars
    /\ InitCallVars
    /\ WRITER = NoWriter

OverflowOther ==
    <<fa_ret, fa_hist, fa_freed, lastOp, heapvars, execvars, convars, call_arg,
      call_ret, WRITER, remap>>

\* the machine after a step of the test
OverflowStep(m) ==
    /\ mem' = m.mem
    /\ cr3' = m.cr3
    /\ fa' = m.fa
    /\ panicked' = m.panic
    /\ UNCHANGED OverflowOther

\* memory::init after remap_kernel has returned
MemoryInitHeap ==
    /\ cpu.pc = "memory_init"
    /\ remap.pc = "done"
    /\ ~panicked
    /\ \E m \in {memory_init_heap(Machine)} :
          /\ OverflowStep(m)
          /\ range' = IF m.panic THEN range ELSE stack_alloc_range
          /\ cpu' = [cpu EXCEPT !.pc = IF m.panic THEN @ ELSE "init_test_idt"]
    /\ UNCHANGED stacks

\* init_test_idt: alloc_stack(1).expect(..), the TSS with the stack's top
\* as entry TEST_DOUBLE_FAULT_IST_INDEX, and the IDT
InitTestIdt ==
    /\ cpu.pc = "init_test_idt"
    /\ ~panicked
    /\ \E r \in {alloc_stack(Machine, range, 1)} :
          /\ OverflowStep([r.m EXCEPT !.panic = @ \/ r.ret = None])
          /\ range' = r.range
          /\ stacks' = IF r.ret = None THEN stacks
                        ELSE Append(stacks, [stack |-> Unwrap(r.ret), n |-> 1,
                                             guard |-> range.start])
          /\ cpu' = IF r.m.panic \/ r.ret = None THEN cpu
                    ELSE [cpu EXCEPT !.pc = "stack_overflow",
                                     !.ist = <<Unwrap(r.ret).top>>]

\* stack_overflow calls itself: the call writes below the stack pointer
StackOverflowCall ==
    /\ cpu.pc = "stack_overflow"
    /\ \E to \in {AddrAdd(cpu.rsp, 0 - CallFrameBytes)} :
          cpu' = IF CpuMapped(Machine, to)
                 THEN [cpu EXCEPT !.rsp = to,
                                  !.written = @ \cup {CpuFrame(Machine, to)}]
                 ELSE [cpu EXCEPT !.pc = "page_fault", !.cr2 = Some(to)]
    /\ UNCHANGED <<favars, ptvars, OverflowOther>>

\* the CPU delivers the page fault: TEST_IDT has no entry for it, which is
\* a double fault
PageFault ==
    /\ cpu.pc = "page_fault"
    /\ cpu' = [cpu EXCEPT !.pc = "double_fault"]
    /\ UNCHANGED <<favars, ptvars, OverflowOther>>

\* the CPU delivers the double fault: it pushes the exception's frame on
\* the entry's stack and enters the handler; a fault of that push resets
\* the CPU
DoubleFault ==
    /\ cpu.pc = "double_fault"
    /\ \E to \in {AddrAdd(DoubleFaultStack(cpu), 0 - ExceptionFrameBytes)} :
          cpu' = IF CpuMapped(Machine, to)
                 THEN [cpu EXCEPT !.pc = "double_fault_handler", !.rsp = to]
                 ELSE [cpu EXCEPT !.pc = "triple_fault"]
    /\ UNCHANGED <<favars, ptvars, OverflowOther>>

\* double_fault_handler: exit_qemu(QemuExitCode::Success)
DoubleFaultHandler ==
    /\ cpu.pc = "double_fault_handler"
    /\ cpu' = [cpu EXCEPT !.pc = "exit", !.exit_code = "Success"]
    /\ UNCHANGED <<favars, ptvars, OverflowOther>>

\* the test's panic handler: exit_qemu(QemuExitCode::Fail)
TestPanicHandler ==
    /\ panicked
    /\ cpu.pc \in {"memory_init", "init_test_idt"}
    /\ cpu' = [cpu EXCEPT !.pc = "exit", !.exit_code = "Fail"]
    /\ UNCHANGED <<favars, ptvars, OverflowOther>>

NextOverflow ==
    \/ RemapNewTable
    \/ RemapWith
    \/ RemapSwitch
    \/ RemapGuard
    \/ MemoryInitHeap
    \/ InitTestIdt
    \/ StackOverflowCall
    \/ PageFault
    \/ DoubleFault
    \/ DoubleFaultHandler
    \/ TestPanicHandler

SpecOverflow == InitOverflow /\ [][NextOverflow]_vars

\* the steps of the CPU in stack_overflow and in the delivery of its fault
CpuStep == StackOverflowCall \/ PageFault \/ DoubleFault \/ DoubleFaultHandler

\* the CPU executes the next instruction: no interrupt is enabled and
\* nothing else runs
SpecOverflowFair == SpecOverflow /\ WF_vars(CpuStep)

\* the frames the present entries of the tables in the frames S point at,
\* huge pages left out
TablesBelow(m, S) ==
    UNION { { m.mem[f][i].frame :
                i \in { j \in DOMAIN m.mem[f] :
                          /\ "PRESENT" \in m.mem[f][j].flags
                          /\ "HUGE_PAGE" \notin m.mem[f][j].flags } } :
            f \in S \cap DOMAIN m.mem }

\* the frames the CPU's walk from CR3 reads as P4, P3, P2 or P1 table
ActiveTables(m) ==
    {m.cr3} \cup TablesBelow(m, {m.cr3})
        \cup TablesBelow(m, TablesBelow(m, {m.cr3}))
        \cup TablesBelow(m, TablesBelow(m, TablesBelow(m, {m.cr3})))

\* the double-fault handler has been entered
InDoubleFaultHandler ==
    cpu.pc = "double_fault_handler" \/ (cpu.pc = "exit" /\ cpu.exit_code = "Success")

\* the stack pointer is in the one page of the stack alloc_stack(1) returned
\* to init_test_idt, and that page is mapped writable
OnDoubleFaultStack ==
    /\ Len(stacks) = 1
    /\ stacks[1].n = 1
    /\ cpu.ist = <<stacks[1].stack.top>>
    /\ Page_containing_address(cpu.rsp)
         = Page_containing_address(stacks[1].stack.bottom)
    /\ {"PRESENT", "WRITABLE"}
         \subseteq LeafEntry(Machine, Page_containing_address(cpu.rsp)).flags

\* the page fault was at the page remap_kernel unmapped, below pages of the
\* image's writable section, and the recursion wrote to no page table of the
\* active hierarchy
FaultedOnGuardPage ==
    /\ cpu.cr2 # None
    /\ Page_containing_address(Unwrap(cpu.cr2)) = old_p4_page(remap.old_table)
    /\ cpu.written \cap ActiveTables(Machine) = {}

\* C22: when the recursion of stack_overflow drives the boot stack into the
\* guard page remap_kernel left, the page fault becomes a double fault whose
\* handler runs on the stack alloc_stack(1) returned (entry 0 of the
\* interrupt stack table), and the test exits with success: the CPU does not
\* reset, and from the first call on nothing but that exit ends the test.
C22_StackOverflowRecovery ==
    /\ [](InDoubleFaultHandler => OnDoubleFaultStack /\ FaultedOnGuardPage)
    /\ [](cpu.pc # "triple_fault")
    /\ [](cpu.pc = "exit" /\ cpu.cr2 # None => cpu.exit_code = "Success")
    /\ (cpu.pc = "stack_overflow") ~> (cpu.pc = "exit" /\ cpu.exit_code = "Success")

C22_Witness ==
    /\ cpu.pc = "exit"
    /\ cpu.exit_code = "Success"
    /\ OnDoubleFaultStack
    /\ FaultedOnGuardPage
    /\ {BootP3Frame, BootP2Frame} \subseteq cpu.written

\* a <= b on addresses
AddrLeq(a, b) == ~AddrLess(b, a)

\* the stack st lies below the guard page of the stack after it, which is
\* not mapped
StackBelow(st, after) ==
    /\ AddrLeq(st.stack.top, Page_start_address(after.guard))
    /\ AddrLess(Page_start_address(after.guard), after.stack.bottom)
    /\ translate_page(Machine, after.guard) = None
    /\ HwWalk(Machine, after.guard) = None

\* the stack st is a range of mapped pages that ends at or before the end
\* of the allocator's range and before what is left of it
StackInRange(st, it) ==
    /\ AddrLess(st.stack.bottom, st.stack.top)
    /\ \A k \in 1..st.n : translate_page(Machine, NumAdd(st.guard, k)) # None
    /\ AddrLeq(st.stack.top, Page_start_address(NumAdd(it.end, 1)))
    /\ AddrLeq(st.stack.top, Page_start_address(it.start))

\* C39: the stacks alloc_stack has returned are pairwise disjoint ranges
\* [bottom, top): each one ends at or before the guard page of every later
\* one, and that page is not mapped; each lies inside the allocator's range,
\* below what is left of it; the range loses pages at its front only, its
\* end stays, and the pages it loses are the guard page and the pages of
\* the stack a call returns; memory::init starts the range on the page
\* after the last heap page.
C39_StacksDisjoint ==
    /\ [](~panicked =>
             /\ \A i \in DOMAIN stacks : StackInRange(stacks[i], range)
             /\ \A i \in DOMAIN stacks : \A j \in DOMAIN stacks :
                   i < j => StackBelow(stacks[i], stacks[j]))
    /\ [][~panicked' =>
             /\ range'.end = range.end
             /\ NumLeq(range.start, range'.start)
             /\ (range'.start # range.start) <=> (Len(stacks') = Len(stacks) + 1)
             /\ Len(stacks') = Len(stacks) + 1 =>
                   /\ stacks'[Len(stacks')].guard = range.start
                   /\ stacks'[Len(stacks')].stack.bottom
                        = Page_start_address(NumAdd(range.start, 1))
                   /\ stacks'[Len(stacks')].stack.top
                        = Page_start_address(range'.start)
                   /\ NumLeq(range'.start, NumAdd(range.end, 1))]_vars
    /\ stack_alloc_range.start = NumAdd(NumAdd(HeapStartPage, HeapPages - 1), 1)

\* three stacks were returned, one of two pages among them, and the range
\* has pages left
C39_Witness ==
    /\ Len(stacks) = 3
    /\ \E i \in DOMAIN stacks : stacks[i].n = 2
    /\ PagesLeft(range) >= 1
    /\ ~panicked

\* the machine with the memory and the P4 frame given
MachineOf(memory, p4_frame) ==
    [mem |-> memory, cr3 |-> p4_frame, fa |-> fa, ret |-> None, hist |-> <<>>,
     freed |-> {}, panic |-> FALSE]

\* C33: after InactivePageTable::new the table in the frame has entry 511
\* pointing at the frame itself, PRESENT and WRITABLE, every other entry is
\* unused, whatever the frame held before, and the temporary page is not
\* mapped in the active table.
C33_NewTableRecursiveOnly ==
    (remap.pc = "with" /\ ~panicked) =>
        /\ EntryAt(Machine, remap.p4_frame, 511)
             = Entry_set(remap.p4_frame, {"PRESENT", "WRITABLE"})
        /\ \A i \in 0..510 : EntryAt(Machine, remap.p4_frame, i) = UnusedEntry
        /\ HwWalk(Machine, TmpPage) = None
        /\ translate_page(Machine, TmpPage) = None

\* InactivePageTable::new has returned for a frame that held entries before
\* the boot, as the frame after it still does
C33_Witness ==
    /\ remap.pc = "with"
    /\ ~panicked
    /\ remap.p4_frame + 1 \in DOMAIN mem
    /\ mem[remap.p4_frame + 1] = StaleTable
    /\ remap.p4_frame \in (BssFrames + 1)..RemapFrames

\* the frames of the tables of the active hierarchy that the CPU reaches
\* without entry 511 of the P4 table
OwnTables(m) ==
    {m.cr3}
      \cup { m.mem[m.cr3][i].frame :
               i \in { j \in DOMAIN m.mem[m.cr3] :
                         j # 511 /\ "PRESENT" \in m.mem[m.cr3][j].flags } }
      \cup TablesBelow(m, { m.mem[m.cr3][i].frame :
               i \in { j \in DOMAIN m.mem[m.cr3] :
                         j # 511 /\ "PRESENT" \in m.mem[m.cr3][j].flags } })
      \cup TablesBelow(m, TablesBelow(m, { m.mem[m.cr3][i].frame :
               i \in { j \in DOMAIN m.mem[m.cr3] :
                         j # 511 /\ "PRESENT" \in m.mem[m.cr3][j].flags } }))

\* C34: with takes as backup the frame entry 511 of the active P4 table
\* points at; while f runs, that entry points at the inactive table's P4
\* frame, and what f maps lands in the inactive hierarchy: the tables of the
\* active hierarchy stay as they are and the inactive hierarchy maps the
\* frames f has mapped; when with returns, entry 511 of the original P4
\* table points at the backup again and the temporary page is unmapped.
C34_WithRedirectsAndRestores ==
    /\ []((remap.pc \in {"closure", "restore"} /\ ~panicked) =>
             /\ cr3 = remap.backup
             /\ EntryAt(Machine, cr3, 511)
                  = Entry_set(remap.p4_frame, {"PRESENT", "WRITABLE"})
             /\ HwWalk(Machine, TmpPage) = Some(remap.backup))
    /\ [][/\ (remap.pc = "with" /\ remap'.pc = "closure")
                => Entry_pointed_frame(EntryAt(Machine, cr3, 511)) = Some(remap'.backup)
          /\ (remap.pc = "closure" /\ remap'.pc = "restore")
                => /\ \A f \in OwnTables(Machine) : mem'[f] = mem[f]
                   /\ \A f \in KernelFrames \cup MbiFrames \cup {VgaFrame} :
                         /\ HwWalk(MachineOf(mem', remap.p4_frame), Num(f)) = Some(f)
                         /\ HwWalk(MachineOf(mem', cr3), Num(f)) = HwWalk(Machine, Num(f))
          /\ (remap.pc = "restore" /\ remap'.pc = "switch")
                => /\ cr3' = cr3
                   /\ EntryAt(MachineOf(mem', cr3), cr3, 511)
                        = Entry_set(remap.backup, {"PRESENT", "WRITABLE"})
                   /\ HwWalk(MachineOf(mem', cr3), TmpPage) = None]_vars

\* with has returned: f has mapped the image, and the active P4 table is
\* the boot P4 table with its recursive entry restored
C34_Witness ==
    /\ remap.pc = "switch"
    /\ ~panicked
    /\ remap.backup = BootP4Frame
    /\ cr3 = BootP4Frame
    /\ EntryAt(Machine, cr3, 511).frame = BootP4Frame
    /\ HwWalk(MachineOf(mem, remap.p4_frame), Num(VgaFrame)) = Some(VgaFrame)

----------------------------------------------------------------------------
(* vga_buffer.rs: the writer of the VGA text buffer.  The buffer of the    *)
(* model has BUFFER_SIZE_Y rows of BUFFER_SIZE_X columns, rows and columns *)
(* counted from 1; the row the writer writes to is the last one.           *)

BUFFER_SIZE_X == 4

BUFFER_SIZE_Y == 3

\* the number of print! and println! calls of a run
MaxPrints == 3

\* ColorCode::new: (background as u8) << 4 | (font as u8), colors below 16
ColorCode_new(font, background) == ((background * 16) % 256) + font

ScreenChar(ascii, color_code) == [ascii |-> ascii, color_code |-> color_code]

\* lazy_static WRITER: column 0, white on black, the buffer as it is
Writer_new(buffer) ==
    [column_pos |-> 0, color_code |-> ColorCode_new(15, 0), buffer |-> buffer]

\* Writer::clear_row, rows counted from 1
Writer_clear_row(w, row) ==
    [w EXCEPT !.buffer[row] = [col \in 1..BUFFER_SIZE_X |-> ScreenChar(32, w.color_code)],
              !.column_pos = 0]

\* a newline that clears the last row without moving the rows up
Writer_newline_no_scroll(w) ==
    Writer_clear_row(w, BUFFER_SIZE_Y)

\* Writer::newline: every row moves up by one, the last row is cleared
Writer_newline(w) ==
    Writer_clear_row(
        [w EXCEPT !.buffer = [row \in 1..BUFFER_SIZE_Y |->
                                IF row < BUFFER_SIZE_Y THEN w.buffer[row + 1]
                                ELSE w.buffer[row]]],
        BUFFER_SIZE_Y)

\* Writer::backspace
Writer_backspace(w) ==
    IF w.column_pos = 0 THEN w
    ELSE [w EXCEPT !.buffer[BUFFER_SIZE_Y][w.column_pos] = ScreenChar(32, w.color_code),
                   !.column_pos = w.column_pos - 1]

\* the last arm of Writer::write, after the newline of a full row
Writer_put(w, byte) ==
    [w EXCEPT !.buffer[BUFFER_SIZE_Y][w.column_pos + 1] = ScreenChar(byte, w.color_code),
              !.column_pos = w.column_pos + 1]

\* Writer::write
Writer_write(w, byte) ==
    CASE byte = 10 -> Writer_newline(w)
      [] byte = 13 -> [w EXCEPT !.column_pos = 0]
      [] byte = 8 -> Writer_backspace(w)
      [] OTHER -> Writer_put(IF w.column_pos >= BUFFER_SIZE_X THEN Writer_newline(w)
                             ELSE w, byte)

\* Writer::write_string: "    " for a tab, "<DEL>" for 0x7f, 0x7e for every
\* other byte that is not printable ASCII
RECURSIVE Writer_write_string(_, _)
Writer_write_string(w, str) ==
    IF str = <<>> THEN w
    ELSE Writer_write_string(
             CASE Head(str) \in 32..126 \/ Head(str) \in {10, 13, 8}
                    -> Writer_write(w, Head(str))
               [] Head(str) = 9 -> Writer_write_string(w, <<32, 32, 32, 32>>)
               [] Head(str) = 127 -> Writer_write_string(w, <<60, 68, 69, 76, 62>>)
               [] OTHER -> Writer_write(w, 126),
             Tail(str))

\* _print: write_fmt writes the pieces of the format string in order
vga_print(w, pieces) ==
    IF Len(pieces) = 1 THEN Writer_write_string(w, pieces[1])
    ELSE Writer_write_string(Writer_write_string(w, pieces[1]), pieces[2])

----------------------------------------------------------------------------
(* The VGA writer on its own: the buffer holds what the boot loader left   *)
(* there, and the kernel calls print! and println! in any order.           *)

\* the screens the boot loader leaves: blank, or a letter in every cell,
\* light gray on black
BootScreens ==
    { [row \in 1..BUFFER_SIZE_Y |-> [col \in 1..BUFFER_SIZE_X |-> ScreenChar(c, 7)]] :
        c \in {32, 71} }

\* the arguments of print!: nothing, or one byte: a letter, a newline, a
\* carriage return, a backspace, a tab, DEL, a byte above ASCII
PrintStrings == {<<>>} \cup { <<b>> : b \in {120, 10, 13, 8, 9, 127, 200} }

\* the arguments of println!: printable strings "ABC.." and "abc.." of up to
\* one byte more than a row
PrintlnStrings ==
    { [i \in 1..n |-> c + i] : n \in 0..(BUFFER_SIZE_X + 1), c \in {64, 96} }

InitVga ==
    /\ \E b \in BootScreens : WRITER = Writer_new(b)
    /\ call_arg = NoCall
    /\ call_ret = [op |-> "printed", calls |-> 0]
    /\ remap = NoRemap
    /\ cpu = NoCpu
    /\ InitConVars
    /\ InitExecVars
    /\ InitFrameVars
    /\ InitPagingVars
    /\ InitHeapVars
    /\ panicked = FALSE

\* print!(s)
VgaPrint ==
    \E s \in PrintStrings :
        /\ call_ret.calls < MaxPrints
        /\ WRITER' = vga_print(WRITER, <<s>>)
        /\ call_arg' = [op |-> "print", s |-> s, column_pos |-> WRITER.column_pos]
        /\ call_ret' = [call_ret EXCEPT !.calls = @ + 1]
        /\ UNCHANGED <<remap, cpu, convars, favars, ptvars, heapvars, execvars>>

\* println!(s): print!("{}\n", s)
VgaPrintln ==
    \E s \in PrintlnStrings :
        /\ call_ret.calls < MaxPrints
        /\ WRITER' = vga_print(WRITER, <<s, <<10>>>>)
        /\ call_arg' = [op |-> "println", s |-> s, column_pos |-> WRITER.column_pos]
        /\ call_ret' = [call_ret EXCEPT !.calls = @ + 1]
        /\ UNCHANGED <<remap, cpu, convars, favars, ptvars, heapvars, execvars>>

NextVga == VgaPrint \/ VgaPrintln

SpecVga == InitVga /\ [][NextVga]_vars

\* the bytes of s are in the given row from the column after col on, each
\* with the writer's color code
ShowsAt(row, col, s) ==
    \A i \in 1..Len(s) :
        WRITER.buffer[row][col + i] = ScreenChar(s[i], WRITER.color_code)

\* C23, as stated: after println!(s) for a printable s of at most
\* BUFFER_SIZE_X bytes, the bytes of s are in the last row of the buffer
\* from the first column on, each with the writer's color code.
C23_PrintlnOnLastRow ==
    (call_arg.op = "println" /\ Len(call_arg.s) <= BUFFER_SIZE_X)
        => ShowsAt(BUFFER_SIZE_Y, 0, call_arg.s)

\* C23, amended: after println!(s) for a printable s of N bytes, called
\* with the writer at column c and c + N at most BUFFER_SIZE_X (c is 0 at
\* boot and after every println!), the bytes of s are in the row above the
\* last one, columns c to c + N, each with the writer's color code; the last
\* row is blank and the writer is at column 0.
C23_PrintlnOnRowAbove ==
    (call_arg.op = "println"
        /\ call_arg.column_pos + Len(call_arg.s) <= BUFFER_SIZE_X)
        => /\ ShowsAt(BUFFER_SIZE_Y - 1, call_arg.column_pos, call_arg.s)
           /\ \A col \in 1..BUFFER_SIZE_X :
                 WRITER.buffer[BUFFER_SIZE_Y][col] = ScreenChar(32, WRITER.color_code)
           /\ WRITER.column_pos = 0

\* println! of a string that fills a row has returned, called at column 0
\* on a screen that was not blank
C23_Witness ==
    /\ call_arg.op = "println"
    /\ call_arg.column_pos = 0
    /\ Len(call_arg.s) = BUFFER_SIZE_X
    /\ WRITER.buffer[1][1].ascii = 71

----------------------------------------------------------------------------
(* Page::containing_address on its own, called once with an address at or  *)
(* near the ends of the address space and of the non-canonical hole.       *)

\* bits 39 to 63 of the sample addresses, their bits 12 to 38 and their
\* offsets into the page
AddrHighSamples ==
    {0, 1, 255, 256, 257, 2^24, TwoTo25 - 257, TwoTo25 - 256, TwoTo25 - 255,
     TwoTo25 - 1}

AddrLowSamples == {0, 1, TwoTo27 - 1}

AddrOffsetSamples == {0, 1, PAGE_SIZE - 1}

InitPage ==
    /\ \E hi \in AddrHighSamples, lo \in AddrLowSamples, off \in AddrOffsetSamples :
          call_arg = [op |-> "containing_address",
                      addr |-> [num |-> <<hi, lo>>, off |-> off]]
    /\ call_ret = NoCall
    /\ WRITER = NoWriter
    /\ remap = NoRemap
    /\ cpu = NoCpu
    /\ InitConVars
    /\ InitExecVars
    /\ InitFrameVars
    /\ InitPagingVars
    /\ InitHeapVars
    /\ panicked = FALSE

\* Page::containing_address(addr): the assertion, then the page
ContainingAddress ==
    /\ call_ret = NoCall
    /\ call_ret' = IF ~IsCanonical(call_arg.addr) THEN [op |-> "panic"]
                   ELSE [op |-> "page", page |-> Page_containing_address(call_arg.addr)]
    /\ UNCHANGED <<call_arg, WRITER, remap, cpu, convars, favars, ptvars, heapvars, execvars>>

NextPage == ContainingAddress

SpecPage == InitPage /\ [][NextPage]_vars

\* 0x0000_8000_0000_0000 and 0xffff_8000_0000_0000
NonCanonicalStart == [num |-> <<2^8, 0>>, off |-> 0]

NonCanonicalEnd == [num |-> <<TwoTo25 - 2^8, 0>>, off |-> 0]

\* C24: Page::containing_address(addr) panics exactly when
\* 0x0000_8000_0000_0000 <= addr < 0xffff_8000_0000_0000, and otherwise
\* returns the page whose start address plus the low 12 bits of addr is
\* addr, that is the page number addr / 4096.
C24_ContainingAddress ==
    call_ret # NoCall =>
        /\ call_ret.op = "panic"
              <=> (/\ ~AddrLess(call_arg.addr, NonCanonicalStart)
                   /\ AddrLess(call_arg.addr, NonCanonicalEnd))
        /\ call_ret.op = "page"
              => /\ AddrAdd(Page_start_address(call_ret.page), call_arg.addr.off)
                      = call_arg.addr
                 /\ Page_start_address(call_ret.page).off = 0

\* the call has returned the last page below the hole for its last byte
C24_Witness ==
    /\ call_ret.op = "page"
    /\ call_arg.addr = [num |-> <<255, TwoTo27 - 1>>, off |-> PAGE_SIZE - 1]
    /\ call_ret.page = <<255, TwoTo27 - 1>>

----------------------------------------------------------------------------
(* Mapper::translate on its own, called once on page tables that hold a    *)
(* 1GiB page in the P3 table and a 2MiB page in a P2 table.                *)

\* the frames of the tables and of the one 4KiB page
HugeP3Frame == BootP4Frame + 1

HugeP2Frame == HugeP3Frame + 1

HugeP1Frame == HugeP2Frame + 1

SmallPageFrame == HugeP1Frame + 5

\* the start frames of the 1GiB page and of the 2MiB page: aligned ones and
\* ones the assertions reject
HugeP3Starts ==
    {0, ENTRY_COUNT * ENTRY_COUNT, 3 * ENTRY_COUNT * ENTRY_COUNT, ENTRY_COUNT, 5}

HugeP2Starts == {0, ENTRY_COUNT, 4 * ENTRY_COUNT, 7}

HugeFlags == {{"PRESENT", "HUGE_PAGE"}, {"PRESENT", "WRITABLE", "HUGE_PAGE"},
              {"HUGE_PAGE"}}

\* P3 entry 0 leads to a P2 table, whose entry 0 leads to a P1 table and
\* whose entry 1 is the 2MiB page; P3 entry 1 is the 1GiB page
HugeMem(s3, f3, s2, f2) ==
    (BootP4Frame :> (0 :> Entry_set(HugeP3Frame, {"PRESENT", "WRITABLE"})
                     @@ 511 :> Entry_set(BootP4Frame, {"PRESENT", "WRITABLE"})))
    @@ (HugeP3Frame :> (0 :> Entry_set(HugeP2Frame, {"PRESENT", "WRITABLE"})
                        @@ 1 :> Entry_set(s3, f3)))
    @@ (HugeP2Frame :> (0 :> Entry_set(HugeP1Frame, {"PRESENT", "WRITABLE"})
                        @@ 1 :> Entry_set(s2, f2)))
    @@ (HugeP1Frame :> (5 :> Entry_set(SmallPageFrame, {"PRESENT"})))

\* the indices of the sample addresses at the P3, P2 and P1 level
HugeP3Indices == {0, 1}

HugeP2Indices == {0, 1, ENTRY_COUNT - 1}

HugeP1Indices == {0, 5, ENTRY_COUNT - 1}

InitHuge ==
    /\ \E s3 \in HugeP3Starts, f3 \in HugeFlags, s2 \in HugeP2Starts, f2 \in HugeFlags :
          mem = HugeMem(s3, f3, s2, f2)
    /\ cr3 = BootP4Frame
    /\ \E i3 \in HugeP3Indices, i2 \in HugeP2Indices, i1 \in HugeP1Indices,
          off \in AddrOffsetSamples :
          call_arg = [op |-> "translate",
                      addr |-> [num |-> <<0, (i3 * ENTRY_COUNT + i2) * ENTRY_COUNT + i1>>,
                                off |-> off]]
    /\ call_ret = NoCall
    /\ range = [start |-> <<0, 1>>, end |-> <<0, 0>>]
    /\ stacks = <<>>
    /\ lastOp = NoOp
    /\ WRITER = NoWriter
    /\ remap = NoRemap
    /\ cpu = NoCpu
    /\ InitConVars
    /\ InitExecVars
    /\ InitFrameVars
    /\ InitHeapVars
    /\ panicked = FALSE

\* translate(addr): an assertion of calculate_huge_page_frame, or the
\* physical address
Translate ==
    /\ call_ret = NoCall
    /\ call_ret' =
          IF translate_page_panics(Machine, Page_containing_address(call_arg.addr))
          THEN [op |-> "panic"]
          ELSE [op |-> "translate", ret |-> translate(Machine, call_arg.addr)]
    /\ UNCHANGED <<call_arg, WRITER, remap, cpu, convars, favars, ptvars, heapvars, execvars>>

NextHuge == Translate

SpecHuge == InitHuge /\ [][NextHuge]_vars

\* the entry is PRESENT and HUGE_PAGE
IsHugeEntry(e) == {"PRESENT", "HUGE_PAGE"} \subseteq e.flags

\* the entry is PRESENT and leads to a table
IsTableEntry(e) == "PRESENT" \in e.flags /\ "HUGE_PAGE" \notin e.flags

\* the entries the CPU reads on the walk to the page: in the P4 table, and
\* in the tables the entries before point at
WalkEntryP4(page) == EntryAt(Machine, cr3, p4_index(page))

WalkEntryP3(page) == EntryAt(Machine, WalkEntryP4(page).frame, p3_index(page))

WalkEntryP2(page) == EntryAt(Machine, WalkEntryP3(page).frame, p2_index(page))

\* frame * 4096 + the low 12 bits of the address
PhysAddrOf(frame, addr) ==
    [num |-> <<frame \div TwoTo27, frame % TwoTo27>>, off |-> addr.off % PAGE_SIZE]

\* C36: translate of an address whose walk meets, in the P3 table, a PRESENT
\* HUGE_PAGE entry with a start frame S that is a multiple of 512 * 512
\* returns the address of frame S + p2_index * 512 + p1_index; if the P3
\* entry leads to a P2 table and the P2 entry is PRESENT and HUGE_PAGE with a
\* start frame S that is a multiple of 512, that of frame S + p1_index; the
\* physical address is the frame's number times 4096 plus the low 12 bits
\* of the virtual address.
C36_TranslateHugePage ==
    call_ret # NoCall =>
        \A page \in {Page_containing_address(call_arg.addr)} :
            /\ (/\ IsTableEntry(WalkEntryP4(page))
                /\ IsHugeEntry(WalkEntryP3(page))
                /\ WalkEntryP3(page).frame % (512 * 512) = 0)
                  => call_ret = [op |-> "translate",
                                 ret |-> Some(PhysAddrOf(WalkEntryP3(page).frame
                                                           + p2_index(page) * 512
                                                           + p1_index(page),
                                                         call_arg.addr))]
            /\ (/\ IsTableEntry(WalkEntryP4(page))
                /\ IsTableEntry(WalkEntryP3(page))
                /\ IsHugeEntry(WalkEntryP2(page))
                /\ WalkEntryP2(page).frame % 512 = 0)
                  => call_ret = [op |-> "translate",
                                 ret |-> Some(PhysAddrOf(WalkEntryP2(page).frame
                                                           + p1_index(page),
                                                         call_arg.addr))]

\* translate has returned for the last byte of the last 4KiB page of a
\* 1GiB page that starts at frame 3 * 512 * 512
C36_Witness ==
    /\ call_ret.op = "translate"
    /\ call_arg.addr = [num |-> <<0, (ENTRY_COUNT + ENTRY_COUNT - 1) * ENTRY_COUNT
                                       + ENTRY_COUNT - 1>>,
                        off |-> PAGE_SIZE - 1]
    /\ WalkEntryP3(call_arg.addr.num) = Entry_set(3 * ENTRY_COUNT * ENTRY_COUNT,
                                                  {"PRESENT", "HUGE_PAGE"})
    /\ call_ret.ret = Some([num |-> <<0, 4 * ENTRY_COUNT * ENTRY_COUNT - 1>>,
                            off |-> PAGE_SIZE - 1])

\* translate has returned for an address in a 2MiB page that starts at
\* frame 4 * 512 and lies below a P2 table
C36_WitnessP2 ==
    /\ call_ret.op = "translate"
    /\ call_arg.addr = [num |-> <<0, ENTRY_COUNT + 5>>, off |-> 1]
    /\ WalkEntryP2(call_arg.addr.num) = Entry_set(4 * ENTRY_COUNT,
                                                  {"PRESENT", "HUGE_PAGE"})
    /\ call_ret.ret = Some([num |-> <<0, 4 * ENTRY_COUNT + 5>>, off |-> 1])

----------------------------------------------------------------------------
(* vga_buffer.rs and serial.rs: _print.  The kernel's thread and an        *)
(* interrupt handler both print; a handler starts whenever the interrupt   *)
(* flag is set, runs with the flag cleared and gives the flag back when it *)
(* returns.                                                                *)

Writers == {"WRITER", "SERIAL1"}

\* a without_interrupts that leaves the interrupt flag as it is
without_interrupts_no_disable(saved, flag) == flag

\* without_interrupts, before the closure: if saved_intpt_flag { disable() }
without_interrupts_disable(saved, flag) ==
    IF saved THEN interrupts_disable(flag) ELSE flag

\* without_interrupts, after the closure: if saved_intpt_flag { enable() }
without_interrupts_restore(saved, flag) ==
    IF saved THEN TRUE ELSE flag

\* the code that is executing: the handler if one is running, else the thread
Running(ctx) == IF in_isr THEN ctx = "isr" ELSE ctx = "thread"

execvars_nointr ==
    <<tasks, task_queue, waker_cache, sc_queue, WAKER, pc, cur_task, kpc, to_spawn,
      pushed, delivered, woken, wakes, keys, enqueued, dequeued, isr_heap>>

ConOther == <<favars, ptvars, heapvars, execvars_nointr, call_arg, call_ret, WRITER, remap, cpu>>

InitConsole ==
    /\ InitAuxVars
    /\ InitExecVars
    /\ InitFrameVars
    /\ InitPagingVars
    /\ InitHeapVars
    /\ panicked = FALSE

\* print!, serial_print!: the call of _print
PrintCall(ctx) ==
    \E dev \in Writers :
        /\ Running(ctx)
        /\ print_frame[ctx].at = "idle"
        /\ print_frame' = [print_frame EXCEPT ![ctx] =
                              [at |-> "save", dev |-> dev, saved |-> FALSE, was |-> intr]]
        /\ UNCHANGED <<intr, writer_lock, in_isr, ConOther>>

\* without_interrupts: let saved_intpt_flag = are_enabled()
PrintSave(ctx) ==
    /\ Running(ctx)
    /\ print_frame[ctx].at = "save"
    /\ print_frame' = [print_frame EXCEPT ![ctx].at = "disable", ![ctx].saved = intr]
    /\ UNCHANGED <<intr, writer_lock, in_isr, ConOther>>

\* without_interrupts: disable() if interrupts were enabled
PrintDisable(ctx) ==
    /\ Running(ctx)
    /\ print_frame[ctx].at = "disable"
    /\ intr' = without_interrupts_disable(print_frame[ctx].saved, intr)
    /\ print_frame' = [print_frame EXCEPT ![ctx].at = "lock"]
    /\ UNCHANGED <<writer_lock, in_isr, ConOther>>

\* WRITER.lock(), SERIAL1.lock(): the spin lock is taken once it is free
PrintLock(ctx) ==
    /\ Running(ctx)
    /\ print_frame[ctx].at = "lock"
    /\ writer_lock[print_frame[ctx].dev] = "free"
    /\ writer_lock' = [writer_lock EXCEPT ![print_frame[ctx].dev] = ctx]
    /\ print_frame' = [print_frame EXCEPT ![ctx].at = "locked"]
    /\ UNCHANGED <<intr, in_isr, ConOther>>

\* write_fmt(args), then the guard is dropped at the end of the statement
PrintWrite(ctx) ==
    /\ Running(ctx)
    /\ print_frame[ctx].at = "locked"
    /\ writer_lock' = [writer_lock EXCEPT ![print_frame[ctx].dev] = "free"]
    /\ print_frame' = [print_frame EXCEPT ![ctx].at = "restore"]
    /\ UNCHANGED <<intr, in_isr, ConOther>>

\* without_interrupts: enable() if interrupts were enabled before
PrintRestore(ctx) ==
    /\ Running(ctx)
    /\ print_frame[ctx].at = "restore"
    /\ intr' = without_interrupts_restore(print_frame[ctx].saved, intr)
    /\ print_frame' = [print_frame EXCEPT ![ctx].at = "done"]
    /\ UNCHANGED <<writer_lock, in_isr, ConOther>>

\* _print returns
PrintReturn(ctx) ==
    /\ Running(ctx)
    /\ print_frame[ctx].at = "done"
    /\ print_frame' = [print_frame EXCEPT ![ctx] = NoPrint]
    /\ UNCHANGED <<intr, writer_lock, in_isr, ConOther>>

\* an interrupt: the CPU enters the handler through an interrupt gate, which
\* clears the interrupt flag
ConsoleInterrupt ==
    /\ intr
    /\ ~in_isr
    /\ in_isr' = TRUE
    /\ intr' = FALSE
    /\ UNCHANGED <<print_frame, writer_lock, ConOther>>

\* iretq at the end of the handler: the flags of the interrupted code, whose
\* interrupt flag was set, are back
ConsoleIret ==
    /\ in_isr
    /\ print_frame["isr"].at = "idle"
    /\ in_isr' = FALSE
    /\ intr' = TRUE
    /\ UNCHANGED <<print_frame, writer_lock, ConOther>>

\* the thread, outside _print, disables or enables interrupts
ThreadSetFlag ==
    \E flag \in BOOLEAN :
        /\ ~in_isr
        /\ print_frame["thread"].at = "idle"
        /\ intr' = flag
        /\ UNCHANGED <<print_frame, writer_lock, in_isr, ConOther>>

NextConsole ==
    \/ \E ctx \in {"thread", "isr"} :
          \/ PrintCall(ctx)
          \/ PrintSave(ctx)
          \/ PrintDisable(ctx)
          \/ PrintLock(ctx)
          \/ PrintWrite(ctx)
          \/ PrintRestore(ctx)
          \/ PrintReturn(ctx)
    \/ ConsoleInterrupt
    \/ ConsoleIret
    \/ ThreadSetFlag

SpecConsole == InitConsole /\ [][NextConsole]_vars

\* C21: a writer's spin lock is held only while interrupts are disabled; the
\* code that is executing never waits for a writer lock that is held, so a
\* handler that prints never spins against the code it interrupted; and
\* when _print has finished, the interrupt flag is what it was at the call.
C21_NoConsoleDeadlock ==
    /\ \A dev \in Writers : writer_lock[dev] # "free" => ~intr
    /\ \A ctx \in {"thread", "isr"} :
          /\ (Running(ctx) /\ print_frame[ctx].at = "lock")
                => writer_lock[print_frame[ctx].dev] = "free"
          /\ (Running(ctx) /\ print_frame[ctx].at = "done")
                => intr = print_frame[ctx].was

\* a handler holds the lock of the writer the thread is about to print to:
\* the interrupt came after the thread had read the flag and before it had
\* cleared it
C21_Witness ==
    /\ in_isr
    /\ print_frame["isr"].at = "locked"
    /\ print_frame["thread"].at = "disable"
    /\ print_frame["thread"].saved
    /\ print_frame["thread"].dev = print_frame["isr"].dev
    /\ writer_lock[print_frame["isr"].dev] = "isr"

----------------------------------------------------------------------------
(* The frame allocator on its own: any memory map, kernel range and        *)
(* boot-info range, then any sequence of allocate_frame and                *)
(* deallocate_frame calls.                                                 *)

InitFrame ==
    /\ \E mm \in MemoryMaps, k \in UsedRanges, m \in UsedRanges :
          fa = AreaFrameAllocator_new(k[1], k[2], m[1], m[2], mm)
    /\ fa_ret = None
    /\ fa_hist = <<>>
    /\ fa_freed = {}
    /\ InitPagingVars
    /\ panicked = FALSE
    /\ InitHeapVars
    /\ InitExecVars
    /\ InitAuxVars

FreedFrames == { r.frame : r \in fa_freed }

AllocateFrame ==
    LET r == allocate_frame(fa)
    IN /\ fa' = r.alloc
       /\ fa_ret' = r.ret
       /\ fa_hist' = IF IsSome(r.ret) THEN Append(fa_hist, Unwrap(r.ret)) ELSE fa_hist
       /\ UNCHANGED <<fa_freed, ptvars, heapvars, execvars, auxvars>>

\* a frame can only be given back by the code that got it from the allocator
DeallocateFrame ==
    \E i \in DOMAIN fa_hist :
        /\ fa_hist[i] \notin FreedFrames
        /\ fa' = deallocate_frame(fa, fa_hist[i])
        /\ fa_freed' = fa_freed \cup {[frame |-> fa_hist[i], at |-> Len(fa_hist)]}
        /\ UNCHANGED <<fa_ret, fa_hist, ptvars, heapvars, execvars, auxvars>>

NextFrame == AllocateFrame \/ DeallocateFrame

SpecFrame == InitFrame /\ [][NextFrame]_vars

\* the first and the last frame of the memory areas given to the constructor
InSomeArea(f) ==
    \E i \in DOMAIN fa.areas :
        /\ Frame_containing_address(fa.areas[i].start) <= f
        /\ f <= AreaLastFrame(fa.areas[i])

\* C1: every frame allocate_frame has returned lies outside the kernel range
\* and outside the boot-info range (frame numbers, inclusive) and between
\* the first and the last frame of a memory area given to the constructor.
C1_AllocatedFrameUsable ==
    \A i \in DOMAIN fa_hist :
        /\ ~(fa.kernel_start <= fa_hist[i] /\ fa_hist[i] <= fa.kernel_end)
        /\ ~(fa.mbi_start <= fa_hist[i] /\ fa_hist[i] <= fa.mbi_end)
        /\ InSomeArea(fa_hist[i])

\* the cursor started inside the kernel range at the start of an area, the
\* boot-info range follows the kernel range directly, and the first frame
\* returned is the one after both
C1_Witness ==
    /\ Len(fa_hist) >= 1
    /\ \E i \in DOMAIN fa.areas :
          /\ Frame_containing_address(fa.areas[i].start) = fa.kernel_start
          /\ fa.mbi_start = fa.kernel_end + 1
          /\ fa_hist[1] = fa.mbi_end + 1

\* C2: a frame that allocate_frame returns is greater than every frame it
\* returned before, and is none of the frames passed to deallocate_frame.
C2_NoFrameTwice ==
    [][Len(fa_hist') > Len(fa_hist) =>
          /\ \A i \in DOMAIN fa_hist : fa_hist[i] < fa_hist'[Len(fa_hist')]
          /\ fa_hist'[Len(fa_hist')] \notin FreedFrames]_vars

\* a frame was allocated after an earlier one had been given back
C2_Witness ==
    \E r \in fa_freed : Len(fa_hist) > r.at

\* C27: next_free_frame never decreases: not over a call of allocate_frame
\* (with its skips past the kernel and boot-info ranges and its changes of
\* area), not over deallocate_frame, and not over pick_next_area called in
\* the state before or after.
C27_CursorMonotone ==
    [][/\ fa'.next_free_frame >= fa.next_free_frame
       /\ pick_next_area(fa).next_free_frame >= fa.next_free_frame
       /\ pick_next_area(fa').next_free_frame >= fa'.next_free_frame]_vars

\* two frames were returned with a gap between them, and a frame was given
\* back after the second
C27_Witness ==
    /\ Len(fa_hist) >= 2
    /\ fa_hist[2] > fa_hist[1] + 1
    /\ \E r \in fa_freed : r.frame = fa_hist[2]
    /\ fa.next_free_frame > fa_hist[2]

\* the allocator as allocate_frame(a) has it when it looks at the cursor
\* after its skips past the kernel and the boot-info range: either the
\* cursor has passed the last frame of current_area and pick_next_area is
\* called next, or the cursor frame is returned
RECURSIVE AfterSkips(_)
AfterSkips(a) ==
    IF a.current_area = 0 THEN a
    ELSE IF a.next_free_frame > AreaLastFrame(a.areas[a.current_area]) THEN a
    ELSE IF a.next_free_frame >= a.kernel_start /\ a.next_free_frame <= a.kernel_end
    THEN AfterSkips([a EXCEPT !.next_free_frame = a.kernel_end + 1])
    ELSE IF a.next_free_frame >= a.mbi_start /\ a.next_free_frame <= a.mbi_end
    THEN AfterSkips([a EXCEPT !.next_free_frame = a.mbi_end + 1])
    ELSE a

\* the cursor has passed the last frame of current_area
CursorPassedArea(a) ==
    /\ a.current_area # 0
    /\ a.next_free_frame > AreaLastFrame(a.areas[a.current_area])

\* the area selected next is the one with the lowest start address among
\* the areas that start at or after the cursor, or none if there is none
LowestStartAfterCursor(a) ==
    LET sel == pick_next_area(a).current_area
        after == { i \in DOMAIN a.areas :
                     a.areas[i].start >= a.next_free_frame * PAGE_SIZE }
    IN IF after = {} THEN sel = 0
       ELSE /\ sel \in after
            /\ \A j \in after : a.areas[sel].start <= a.areas[j].start

\* the area selected next is the one with the lowest start address among
\* the areas whose last frame is at or after the cursor, or none if there
\* is none; the cursor moves to its first frame only if that is above it
LowestStartNotBehindCursor(a) ==
    LET n == pick_next_area(a)
        sel == n.current_area
        left == { i \in DOMAIN a.areas :
                    AreaLastFrame(a.areas[i]) >= a.next_free_frame }
    IN IF left = {} THEN sel = 0 /\ n.next_free_frame = a.next_free_frame
       ELSE /\ sel \in left
            /\ \A j \in left : a.areas[sel].start <= a.areas[j].start
            /\ n.next_free_frame
                 = IF Frame_containing_address(a.areas[sel].start) > a.next_free_frame
                   THEN Frame_containing_address(a.areas[sel].start)
                   ELSE a.next_free_frame

\* C28, as stated: whenever the cursor has passed the last frame of
\* current_area, between two calls of allocate_frame or after a skip past
\* the kernel or the boot-info range, the area selected next is the area
\* with the lowest start address that is at or after the cursor.
C28_LowestStartAfterCursor ==
    CursorPassedArea(AfterSkips(fa)) => LowestStartAfterCursor(AfterSkips(fa))

\* C28, amended: whenever the cursor has passed the last frame of
\* current_area, the area selected next is the area with the lowest start
\* address among the areas whose last frame is at or after the cursor; its
\* start may lie below the cursor, which then stays where it is.
C28_LowestStartNotBehindCursor ==
    CursorPassedArea(AfterSkips(fa)) => LowestStartNotBehindCursor(AfterSkips(fa))

\* the cursor has passed the last frame of the third area of the memory
\* map, both other areas reach to the cursor or beyond, and the area selected
\* next is the second of the map, which starts below the first
C28_Witness ==
    /\ CursorPassedArea(fa)
    /\ fa.current_area = 3
    /\ Len(fa_hist) >= 1
    /\ pick_next_area(fa).current_area = 2
    /\ AreasLeft(fa) = {1, 2}
    /\ fa.areas[1].start > fa.areas[2].start

\* the calls of allocate_frame that one call from outside makes, itself
\* included
RECURSIVE allocate_frame_calls(_)
allocate_frame_calls(a) ==
    IF a.current_area = 0 THEN 1
    ELSE IF a.next_free_frame > AreaLastFrame(a.areas[a.current_area])
    THEN 1 + allocate_frame_calls(pick_next_area(a))
    ELSE IF a.next_free_frame >= a.kernel_start /\ a.next_free_frame <= a.kernel_end
    THEN 1 + allocate_frame_calls([a EXCEPT !.next_free_frame = a.kernel_end + 1])
    ELSE IF a.next_free_frame >= a.mbi_start /\ a.next_free_frame <= a.mbi_end
    THEN 1 + allocate_frame_calls([a EXCEPT !.next_free_frame = a.mbi_end + 1])
    ELSE 1

\* the frame lies inside a memory area and outside the kernel range and
\* the boot-info range
UsableFrame(a, f) ==
    /\ \E i \in DOMAIN a.areas :
          /\ Frame_containing_address(a.areas[i].start) <= f
          /\ f <= AreaLastFrame(a.areas[i])
    /\ ~(a.kernel_start <= f /\ f <= a.kernel_end)
    /\ ~(a.mbi_start <= f /\ f <= a.mbi_end)

\* the frames from the cursor to the last frame of the last area
FramesFromCursor(a) ==
    UNION { a.next_free_frame..AreaLastFrame(a.areas[i]) : i \in DOMAIN a.areas }

\* C40: a call of allocate_frame ends after at most one call of itself for
\* each area, one for each of the two used ranges, and one more; it returns
\* None only when no frame at or above the cursor lies inside a memory area
\* and outside the kernel range and the boot-info range; and when a call
\* returns None, so does every call after it.
C40_NoneOnlyWhenExhausted ==
    /\ [](/\ allocate_frame_calls(fa) <= Len(fa.areas) + 3
          /\ allocate_frame(fa).ret = None
                => \A f \in FramesFromCursor(fa) : ~UsableFrame(fa, f))
    /\ [][/\ allocate_frame(fa).ret = None => allocate_frame(fa').ret = None
          /\ (fa_freed' = fa_freed /\ fa_ret' = None)
                => /\ allocate_frame(fa).ret = None
                   /\ allocate_frame(fa').ret = None
                   /\ \A f \in FramesFromCursor(fa) : ~UsableFrame(fa, f)]_vars

\* allocate_frame has returned None after it had returned two frames, one
\* of which was given back, and there is a frame below the cursor that is
\* inside an area and was never returned
C40_Witness ==
    /\ fa.current_area = 0
    /\ fa_ret = None
    /\ Len(fa_hist) >= 2
    /\ fa_freed # {}
    /\ \E f \in 0..fa.next_free_frame :
          /\ f < fa.next_free_frame
          /\ \E i \in DOMAIN fa.areas :
                Frame_containing_address(fa.areas[i].start) <= f
                   /\ f <= AreaLastFrame(fa.areas[i])
          /\ \A i \in DOMAIN fa_hist : fa_hist[i] # f

====
